---- MODULE Spec2Model ----
(***************************************************************************)
(* Model of the API request generator: the interactive session of main()   *)
(* in api_generator.py, the methods of APIRequestGenerator it calls, and   *)
(* the RequestValidator of validator.py.                                   *)
(*                                                                         *)
(* Python strings are sequences of one-character strings, so that lower(), *)
(* upper(), strip(), substring tests and urlparse are computed and not     *)
(* assumed.  Python dicts are functions whose domain is the set of keys    *)
(* present.  Values whose Python type the code inspects (header values,    *)
(* parameter values, the body) carry their type: [type |-> ..., val |-> ..]*)
(***************************************************************************)
EXTENDS Integers, Sequences, FiniteSets, TLC

(***************************************************************************)
(* Strings                                                                 *)
(***************************************************************************)
UpperChars == <<"A","B","C","D","E","F","G","H","I","J","K","L","M",
                "N","O","P","Q","R","S","T","U","V","W","X","Y","Z">>

LowerChars == <<"a","b","c","d","e","f","g","h","i","j","k","l","m",
                "n","o","p","q","r","s","t","u","v","w","x","y","z">>

Digits == {"0","1","2","3","4","5","6","7","8","9"}

Letters == {UpperChars[i] : i \in 1..26} \cup {LowerChars[i] : i \in 1..26}

Whitespace == {" ", "\t", "\n"}

LowerCh(c) ==
    IF \E i \in 1..26 : UpperChars[i] = c
    THEN LowerChars[CHOOSE i \in 1..26 : UpperChars[i] = c]
    ELSE c

UpperCh(c) ==
    IF \E i \in 1..26 : LowerChars[i] = c
    THEN UpperChars[CHOOSE i \in 1..26 : LowerChars[i] = c]
    ELSE c

\* str.lower()
Lower(s) == [i \in 1..Len(s) |-> LowerCh(s[i])]

\* str.upper()
Upper(s) == [i \in 1..Len(s) |-> UpperCh(s[i])]

\* sub in s
Contains(s, sub) ==
    \E i \in 0..(Len(s) - Len(sub)) : SubSeq(s, i + 1, i + Len(sub)) = sub

\* s.startswith(p)
StartsWith(s, p) == Len(s) >= Len(p) /\ SubSeq(s, 1, Len(p)) = p

\* s.find(c) as a 1-based index, 0 when c does not occur
Find(s, c) ==
    IF \E i \in 1..Len(s) : s[i] = c
    THEN CHOOSE i \in 1..Len(s) : s[i] = c /\ \A j \in 1..(i - 1) : s[j] /= c
    ELSE 0

\* str.strip()
Strip(s) ==
    IF \A i \in 1..Len(s) : s[i] \in Whitespace
    THEN <<>>
    ELSE LET a == CHOOSE i \in 1..Len(s) :
                     s[i] \notin Whitespace /\ \A j \in 1..(i - 1) : s[j] \in Whitespace
             b == CHOOSE i \in 1..Len(s) :
                     s[i] \notin Whitespace /\ \A j \in (i + 1)..Len(s) : s[j] \in Whitespace
         IN  SubSeq(s, a, b)

AllIn(s, chars) == \A i \in 1..Len(s) : s[i] \in chars

\* A regular expression ending in $ also matches just before one final newline.
BeforeDollar(s) ==
    IF Len(s) > 0 /\ s[Len(s)] = "\n" THEN {s, SubSeq(s, 1, Len(s) - 1)} ELSE {s}

(***************************************************************************)
(* Python values and dicts                                                 *)
(***************************************************************************)
PyNone == [type |-> "NoneType"]

PyStr(s) == [type |-> "str", val |-> s]

PyInt(n) == [type |-> "int", val |-> n]

PyDict(d) == [type |-> "dict", val |-> d]

IsStr(v) == v.type = "str"

EmptyDict == [k \in {} |-> PyNone]

\* d with key k set to v (d[k] = v)
DictSet(d, k, v) == [x \in DOMAIN d \cup {k} |-> IF x = k THEN v ELSE d[x]]

\* d.update(u)
DictUpdate(d, u) ==
    [x \in DOMAIN d \cup DOMAIN u |-> IF x \in DOMAIN u THEN u[x] ELSE d[x]]

\* d.setdefault(k, v), as the dict afterwards
SetDefault(d, k, v) == IF k \in DOMAIN d THEN d ELSE DictSet(d, k, v)

\* d.get(k, v)
DictGet(d, k, v) == IF k \in DOMAIN d THEN d[k] ELSE v

(***************************************************************************)
(* String literals of the source                                           *)
(***************************************************************************)
S_application_json == <<"a","p","p","l","i","c","a","t","i","o","n","/","j","s","o","n">>

S_Content_Type == <<"C","o","n","t","e","n","t","-","T","y","p","e">>

S_Accept == <<"A","c","c","e","p","t">>

S_Authorization == <<"A","u","t","h","o","r","i","z","a","t","i","o","n">>

S_Bearer == <<"B","e","a","r","e","r"," ">>

S_apikey == <<"a","p","i","k","e","y">>

S_q == <<"q">>

S_default == <<"d","e","f","a","u","l","t">>

S_none == <<"n","o","n","e">>

S_no == <<"n","o">>

S_no_auth == <<"n","o"," ","a","u","t","h">>

S_header == <<"h","e","a","d","e","r">>

S_email == <<"e","m","a","i","l">>

S_date == <<"d","a","t","e">>

S_api_key == <<"a","p","i","_","k","e","y">>

S_url == <<"u","r","l">>

S_http == <<"h","t","t","p">>

S_https == <<"h","t","t","p","s">>

S_help == <<"h","e","l","p">>

S_exit == <<"e","x","i","t">>

S_quit == <<"q","u","i","t">>

S_yes == <<"y","e","s">>

S_y == <<"y">>

S_GET == <<"G","E","T">>

S_POST == <<"P","O","S","T">>

S_PUT == <<"P","U","T">>

S_DELETE == <<"D","E","L","E","T","E">>

S_PATCH == <<"P","A","T","C","H">>

(***************************************************************************)
(* urllib.parse.urlparse, as far as validate_url and prepare_api_request   *)
(* read it: the scheme and the network location.  It raises ValueError     *)
(* when the network location has one square bracket without the other.     *)
(***************************************************************************)
SchemeChars == Letters \cup Digits \cup {"+", "-", "."}

NetlocEnd == {"/", "?", "#"}

Urlparse(url) ==
    LET colon    == Find(url, ":")
        isScheme == /\ colon > 1
                    /\ url[1] \in Letters
                    /\ AllIn(SubSeq(url, 1, colon - 1), SchemeChars)
        scheme   == IF isScheme THEN Lower(SubSeq(url, 1, colon - 1)) ELSE <<>>
        rest     == IF isScheme THEN SubSeq(url, colon + 1, Len(url)) ELSE url
        hasLoc   == StartsWith(rest, <<"/", "/">>)
        after    == SubSeq(rest, 3, Len(rest))
        stop     == IF \E i \in 1..Len(after) : after[i] \in NetlocEnd
                    THEN (CHOOSE i \in 1..Len(after) :
                             /\ after[i] \in NetlocEnd
                             /\ \A j \in 1..(i - 1) : after[j] \notin NetlocEnd) - 1
                    ELSE Len(after)
        netloc   == IF hasLoc THEN SubSeq(after, 1, stop) ELSE <<>>
        opening  == \E i \in 1..Len(netloc) : netloc[i] = "["
        closing  == \E i \in 1..Len(netloc) : netloc[i] = "]"
    IN  [raised |-> IF opening /= closing THEN "ValueError" ELSE "",
         scheme |-> scheme, netloc |-> netloc]

(***************************************************************************)
(* RequestValidator.  Each validate_* operator is "ok" when the method     *)
(* returns and the kind of ValidationError it raises otherwise.            *)
(***************************************************************************)
\* The handler of line 143 turns whatever the try block raises, the two
\* ValidationErrors of lines 140 and 142 included, into a ValidationError.
ValidateUrl(url) ==
    LET result == Urlparse(url)
    IN  IF result.raised /= "" THEN "InvalidUrl"
        ELSE IF result.scheme = <<>> \/ result.netloc = <<>> THEN "InvalidUrl"
        ELSE IF result.scheme \notin {S_http, S_https} THEN "InvalidUrl"
        ELSE "ok"

ValidateHeaders(headers) ==
    IF \E key \in DOMAIN headers : ~IsStr(headers[key]) THEN "InvalidHeader"
    ELSE IF \E key \in DOMAIN headers : key = <<>> \/ headers[key].val = <<>>
    THEN "InvalidHeader"
    ELSE "ok"

EmailLocalChars == Letters \cup Digits \cup {".", "_", "%", "+", "-"}

EmailDomainChars == Letters \cup Digits \cup {".", "-"}

ApiKeyChars == Letters \cup Digits \cup {"_", "-"}

\* ^[a-zA-Z0-9._%+-]+@[a-zA-Z0-9.-]+\.[a-zA-Z]{2,}$
MatchEmail(v) ==
    \E s \in BeforeDollar(v) :
        \E at \in 2..Len(s) : \E dot \in (at + 2)..(Len(s) - 2) :
            /\ s[at] = "@"
            /\ s[dot] = "."
            /\ AllIn(SubSeq(s, 1, at - 1), EmailLocalChars)
            /\ AllIn(SubSeq(s, at + 1, dot - 1), EmailDomainChars)
            /\ AllIn(SubSeq(s, dot + 1, Len(s)), Letters)

\* ^\d{4}-\d{2}-\d{2}$
MatchDate(v) ==
    \E s \in BeforeDollar(v) :
        /\ Len(s) = 10
        /\ \A i \in {1, 2, 3, 4, 6, 7, 9, 10} : s[i] \in Digits
        /\ s[5] = "-"
        /\ s[8] = "-"

\* ^[A-Za-z0-9_\-]{20,}$
MatchApiKey(v) ==
    \E s \in BeforeDollar(v) : Len(s) >= 20 /\ AllIn(s, ApiKeyChars)

\* ^https?:\/\/.+   (. matches any character but a newline)
MatchUrl(v) ==
    \E p \in {S_http \o <<":", "/", "/">>, S_https \o <<":", "/", "/">>} :
        /\ StartsWith(v, p)
        /\ Len(v) > Len(p)
        /\ v[Len(p) + 1] /= "\n"

\* validate_pattern, called with the pattern of the named category
ValidatePattern(value, category) ==
    IF ~IsStr(value) THEN "PatternMismatch"
    ELSE IF category = "email" /\ MatchEmail(value.val) THEN "ok"
    ELSE IF category = "date" /\ MatchDate(value.val) THEN "ok"
    ELSE IF category = "api_key" /\ MatchApiKey(value.val) THEN "ok"
    ELSE IF category = "url" /\ MatchUrl(value.val) THEN "ok"
    ELSE "PatternMismatch"

\* An empty string taken for a missing value.
ValidateParameter_EmptyIsNull(key, value) ==
    IF value = PyNone \/ value = PyStr(<<>>) THEN "NullParameter"
    ELSE IF Contains(Lower(key), S_email) THEN ValidatePattern(value, "email")
    ELSE IF Contains(Lower(key), S_date) THEN ValidatePattern(value, "date")
    ELSE IF Contains(Lower(key), S_api_key) THEN ValidatePattern(value, "api_key")
    ELSE IF Contains(Lower(key), S_url) THEN ValidatePattern(value, "url")
    ELSE "ok"

\* the body of the loop of validate_parameters, for one item
ValidateParameter(key, value) ==
    IF value = PyNone THEN "NullParameter"
    ELSE IF Contains(Lower(key), S_email) THEN ValidatePattern(value, "email")
    ELSE IF Contains(Lower(key), S_date) THEN ValidatePattern(value, "date")
    ELSE IF Contains(Lower(key), S_api_key) THEN ValidatePattern(value, "api_key")
    ELSE IF Contains(Lower(key), S_url) THEN ValidatePattern(value, "url")
    ELSE "ok"

\* The loop raises at the first failing item of the dict; which item that is
\* depends on the insertion order, so the kind reported is that of some failing item.
ValidateParameters(params) ==
    LET failing == {key \in DOMAIN params : ValidateParameter(key, params[key]) /= "ok"}
        first   == CHOOSE key \in failing : TRUE
    IN  IF failing = {} THEN "ok" ELSE ValidateParameter(first, params[first])

(***************************************************************************)
(* json.loads of a str, as far as validate_body reads it: whether the text *)
(* is one JSON document.  Each ...End operator gives the index that        *)
(* follows what it has read, and 0 when nothing fits.                      *)
(***************************************************************************)
IsJsonText(s) ==
    LET n == Len(s)
        Ws == {" ", "\t", "\n", "\r"}
        IsDigit(k) == k <= n /\ s[k] \in Digits
        \* the first index from i on that holds no whitespace
        SkipWs(i) == CHOOSE j \in i..(n + 1) :
                         /\ j = n + 1 \/ s[j] \notin Ws
                         /\ \A k \in i..(j - 1) : s[k] \in Ws
        DigitsEnd(i) == CHOOSE j \in i..(n + 1) :
                            /\ ~IsDigit(j)
                            /\ \A k \in i..(j - 1) : IsDigit(k)
        StartsAt(i, lit) ==
            i + Len(lit) - 1 <= n /\ SubSeq(s, i, i + Len(lit) - 1) = lit
        \* -?(0|[1-9]\d*)(\.\d+)?([eE][-+]?\d+)?
        IntEnd(i)  == IF s[i] = "0" THEN i + 1 ELSE DigitsEnd(i)
        FracEnd(i) == IF i <= n /\ s[i] = "." /\ IsDigit(i + 1)
                      THEN DigitsEnd(i + 1) ELSE i
        ExpEnd(i)  == IF i <= n /\ s[i] \in {"e", "E"}
                      THEN IF i + 1 <= n /\ s[i + 1] \in {"+", "-"} /\ IsDigit(i + 2)
                           THEN DigitsEnd(i + 2)
                           ELSE IF IsDigit(i + 1) THEN DigitsEnd(i + 1) ELSE i
                      ELSE i
        NumberEnd(i) == IF i <= n /\ s[i] = "-"
                        THEN IF IsDigit(i + 1) THEN ExpEnd(FracEnd(IntEnd(i + 1))) ELSE 0
                        ELSE IF IsDigit(i) THEN ExpEnd(FracEnd(IntEnd(i))) ELSE 0
        \* a string from the character after its opening quote on
        RECURSIVE StringEnd(_)
        StringEnd(i) ==
            IF i > n THEN 0
            ELSE IF s[i] = "\"" THEN i + 1
            ELSE IF s[i] \in {"\n", "\t", "\r"} THEN 0
            ELSE IF s[i] = "\\"
            THEN IF i + 1 <= n /\ s[i + 1] \in {"\"", "\\", "/", "b", "f", "n", "r", "t"}
                 THEN StringEnd(i + 2)
                 ELSE 0
            ELSE StringEnd(i + 1)
        RECURSIVE ValueEnd(_)
        RECURSIVE AfterElement(_)
        RECURSIVE Member(_)
        RECURSIVE AfterKey(_)
        RECURSIVE AfterMember(_)
        \* a value that starts at i
        ValueEnd(i) ==
            IF i > n THEN 0
            ELSE IF s[i] = "\"" THEN StringEnd(i + 1)
            ELSE IF s[i] = "["
            THEN IF StartsAt(SkipWs(i + 1), <<"]">>) THEN SkipWs(i + 1) + 1
                 ELSE AfterElement(ValueEnd(SkipWs(i + 1)))
            ELSE IF s[i] = "{"
            THEN IF StartsAt(SkipWs(i + 1), <<"}">>) THEN SkipWs(i + 1) + 1
                 ELSE Member(SkipWs(i + 1))
            ELSE IF StartsAt(i, <<"n","u","l","l">>) THEN i + 4
            ELSE IF StartsAt(i, <<"t","r","u","e">>) THEN i + 4
            ELSE IF StartsAt(i, <<"f","a","l","s","e">>) THEN i + 5
            ELSE IF StartsAt(i, <<"N","a","N">>) THEN i + 3
            ELSE IF StartsAt(i, <<"I","n","f","i","n","i","t","y">>) THEN i + 8
            ELSE IF StartsAt(i, <<"-","I","n","f","i","n","i","t","y">>) THEN i + 9
            ELSE NumberEnd(i)
        \* what follows an array element that ended before e
        AfterElement(e) ==
            IF e = 0 THEN 0
            ELSE IF StartsAt(SkipWs(e), <<"]">>) THEN SkipWs(e) + 1
            ELSE IF StartsAt(SkipWs(e), <<",">>)
            THEN AfterElement(ValueEnd(SkipWs(SkipWs(e) + 1)))
            ELSE 0
        \* an object member whose key starts at i
        Member(i) ==
            IF StartsAt(i, <<"\"">>) THEN AfterKey(StringEnd(i + 1)) ELSE 0
        AfterKey(e) ==
            IF e = 0 THEN 0
            ELSE IF StartsAt(SkipWs(e), <<":">>)
            THEN AfterMember(ValueEnd(SkipWs(SkipWs(e) + 1)))
            ELSE 0
        AfterMember(e) ==
            IF e = 0 THEN 0
            ELSE IF StartsAt(SkipWs(e), <<"}">>) THEN SkipWs(e) + 1
            ELSE IF StartsAt(SkipWs(e), <<",">>) THEN Member(SkipWs(SkipWs(e) + 1))
            ELSE 0
        Whole(e) == e /= 0 /\ SkipWs(e) = n + 1
    IN  Whole(ValueEnd(SkipWs(1)))

\* json.dumps(v) returns: v holds nothing but dicts, lists, strings, numbers,
\* booleans and None
RECURSIVE JsonDumpable(_)
JsonDumpable(v) ==
    IF v.type \in {"str", "int", "float", "bool", "NoneType"} THEN TRUE
    ELSE IF v.type = "dict" THEN \A k \in DOMAIN v.val : JsonDumpable(v.val[k])
    ELSE IF v.type \in {"list", "tuple"} THEN \A k \in 1..Len(v.val) : JsonDumpable(v.val[k])
    ELSE FALSE

\* Numbers taken for bodies.
ValidateBody_NumbersAccepted(body) ==
    IF body.type \in {"dict", "list", "int", "float"}
    THEN IF JsonDumpable(body) THEN "ok" ELSE "InvalidJsonBody"
    ELSE IF body.type = "str"
         THEN IF IsJsonText(body.val) THEN "ok" ELSE "InvalidJsonString"
    ELSE "UnsupportedBodyType"

\* None taken for a body.
ValidateBody_NoneAccepted(body) ==
    IF body.type \in {"dict", "list"}
    THEN IF JsonDumpable(body) THEN "ok" ELSE "InvalidJsonBody"
    ELSE IF body.type = "str"
         THEN IF IsJsonText(body.val) THEN "ok" ELSE "InvalidJsonString"
    ELSE IF body.type = "NoneType" THEN "ok"
    ELSE "UnsupportedBodyType"

ValidateBody(body) ==
    IF body.type \in {"dict", "list"}
    THEN IF JsonDumpable(body) THEN "ok" ELSE "InvalidJsonBody"
    ELSE IF body.type = "str"
         THEN IF IsJsonText(body.val) THEN "ok" ELSE "InvalidJsonString"
    ELSE "UnsupportedBodyType"

ValidMethods == {S_GET, S_POST, S_PUT, S_DELETE, S_PATCH}

BodyMethods == {S_POST, S_PUT, S_PATCH}

ValidateRequest(request_spec) ==
    LET url     == ValidateUrl(request_spec["url"])
        method  == Upper(request_spec["method"])
        headers == ValidateHeaders(request_spec["headers"])
        params  == ValidateParameters(request_spec["params"])
    IN  IF ~({"url", "method"} \subseteq DOMAIN request_spec) THEN "MissingFields"
        ELSE IF url /= "ok" THEN url
        ELSE IF method \notin ValidMethods THEN "InvalidMethod"
        ELSE IF "headers" \in DOMAIN request_spec /\ headers /= "ok" THEN headers
        ELSE IF "params" \in DOMAIN request_spec /\ params /= "ok" THEN params
        ELSE IF method \in BodyMethods
             THEN IF "body" \notin DOMAIN request_spec THEN "BodyRequired"
                  ELSE ValidateBody(request_spec["body"])
        ELSE "ok"

MinKeyLen == 20

ValidateApiKey(api_key, auth_method) ==
    IF api_key = <<>>
    THEN IF Lower(auth_method) \notin {S_none, S_no_auth} THEN "MissingApiKey" ELSE "ok"
    ELSE IF Len(api_key) < MinKeyLen THEN "KeyTooShort"
    ELSE IF ~(\E s \in BeforeDollar(api_key) : Len(s) > 0 /\ AllIn(s, ApiKeyChars))
         THEN "InvalidKeyChars"
    ELSE "ok"

DefaultTimeout == 30

\* The Accept default applied only when Content-Type was there at entry.
SetDefaultValues_AcceptAfterContentType(request_spec, api_info) ==
    LET d1 == SetDefault(request_spec, "headers", EmptyDict)
        h1 == SetDefault(d1["headers"], S_Content_Type, PyStr(S_application_json))
        h2 == IF S_Content_Type \in DOMAIN d1["headers"]
              THEN SetDefault(h1, S_Accept, PyStr(S_application_json))
              ELSE h1
        d2 == DictSet(d1, "headers", h2)
        d3 == SetDefault(d2, "params", EmptyDict)
        d4 == SetDefault(d3, "method", S_GET)
    IN  SetDefault(d4, "timeout", DefaultTimeout)

\* The method set to GET whatever the spec holds.
SetDefaultValues_MethodForced(request_spec, api_info) ==
    LET d1 == SetDefault(request_spec, "headers", EmptyDict)
        h1 == SetDefault(d1["headers"], S_Content_Type, PyStr(S_application_json))
        h2 == SetDefault(h1, S_Accept, PyStr(S_application_json))
        d2 == DictSet(d1, "headers", h2)
        d3 == SetDefault(d2, "params", EmptyDict)
        d4 == DictSet(d3, "method", S_GET)
    IN  SetDefault(d4, "timeout", DefaultTimeout)

\* The timeout left as it is in the spec.
SetDefaultValues_TimeoutLeft(request_spec, api_info) ==
    LET d1 == SetDefault(request_spec, "headers", EmptyDict)
        h1 == SetDefault(d1["headers"], S_Content_Type, PyStr(S_application_json))
        h2 == SetDefault(h1, S_Accept, PyStr(S_application_json))
        d2 == DictSet(d1, "headers", h2)
        d3 == SetDefault(d2, "params", EmptyDict)
    IN  SetDefault(d3, "method", S_GET)

\* The dict returned.  The copy is shallow: the headers dict of the result is
\* the one of the argument when the argument has one.
SetDefaultValues(request_spec, api_info) ==
    LET d1 == SetDefault(request_spec, "headers", EmptyDict)
        h1 == SetDefault(d1["headers"], S_Content_Type, PyStr(S_application_json))
        h2 == SetDefault(h1, S_Accept, PyStr(S_application_json))
        d2 == DictSet(d1, "headers", h2)
        d3 == SetDefault(d2, "params", EmptyDict)
        d4 == SetDefault(d3, "method", S_GET)
    IN  SetDefault(d4, "timeout", DefaultTimeout)

\* The dict passed to set_default_values, after the call: its headers dict is
\* the one the defaults were written to.
SetDefaultValuesArgument(request_spec, api_info) ==
    IF "headers" \in DOMAIN request_spec
    THEN DictSet(request_spec, "headers",
                 SetDefaultValues(request_spec, api_info)["headers"])
    ELSE request_spec

(***************************************************************************)
(* update_request_with_user_input.  The params of the spec and the         *)
(* parameter_updates of the responses are dicts whose order of insertion   *)
(* matters to the code (next() takes the first key that matches), so they  *)
(* are sequences of <<key, value>> pairs with distinct keys.               *)
(***************************************************************************)
\* d.keys()
ItemKeys(d) == {d[i][1] : i \in 1..Len(d)}

\* d[k] = v: a key of d keeps its place, a new key goes last
ItemSet(d, k, v) ==
    IF k \in ItemKeys(d)
    THEN [i \in 1..Len(d) |-> IF d[i][1] = k THEN <<k, v>> ELSE d[i]]
    ELSE Append(d, <<k, v>>)

\* Keys compared as they are written.
MatchingKey_CaseSensitive(params, param_key) == param_key

\* next((key for key in params.keys() if key.lower() == param_key.lower()),
\*      param_key)
MatchingKey(params, param_key) ==
    IF \E i \in 1..Len(params) : Lower(params[i][1]) = Lower(param_key)
    THEN params[CHOOSE i \in 1..Len(params) :
                    /\ Lower(params[i][1]) = Lower(param_key)
                    /\ \A j \in 1..(i - 1) : Lower(params[j][1]) /= Lower(param_key)][1]
    ELSE param_key

\* the loop over parameter_updates.items(), written to the params dict
RECURSIVE UpdateParams(_, _)
UpdateParams(params, parameter_updates) ==
    IF parameter_updates = <<>> THEN params
    ELSE UpdateParams(ItemSet(params,
                              MatchingKey(params, Head(parameter_updates)[1]),
                              Head(parameter_updates)[2]),
                      Tail(parameter_updates))

\* the params dict after the call: the one of the spec when it has one, a
\* new one otherwise
UpdatedParams(request_spec, user_responses) ==
    UpdateParams(DictGet(request_spec, "params", <<>>),
                 DictGet(user_responses, "parameter_updates", <<>>))

\* the dict the call returns
UpdateRequestWithUserInput(request_spec, user_responses) ==
    DictSet(IF "url" \in DOMAIN user_responses
            THEN DictSet(request_spec, "url", user_responses["url"])
            ELSE request_spec,
            "params", UpdatedParams(request_spec, user_responses))

\* The dict passed to update_request_with_user_input, after the call: copy()
\* is shallow, so its params dict is the one the updates were written to.
UpdateRequestWithUserInputArgument(request_spec, user_responses) ==
    IF "params" \in DOMAIN request_spec
    THEN DictSet(request_spec, "params", UpdatedParams(request_spec, user_responses))
    ELSE request_spec

(***************************************************************************)
(* The collaborators' answers.  A model answer is the HTTP status of the   *)
(* completion call and the content of the message, a sequence of tokens:   *)
(* a Markdown fence, a JSON document, or text that is no JSON.             *)
(***************************************************************************)
\* the opening fence of a json code block
FenceJson == [tok |-> "fence_json"]

\* a bare fence
Fence == [tok |-> "fence"]

Text == [tok |-> "text"]

Json(v) == [tok |-> "json", value |-> v]

\* the two replace() calls and the strip() of line 108: both fences are removed
StripFences(content) == SelectSeq(content, LAMBDA t : t.tok \notin {"fence_json", "fence"})

\* json.loads(content): the document when the content is one JSON document
JsonLoads(content) ==
    IF Len(content) = 1 /\ content[1].tok = "json"
    THEN [raised |-> "", value |-> content[1].value]
    ELSE [raised |-> "JSONDecodeError"]

\* str.split('\n')
RECURSIVE SplitLines(_)
SplitLines(s) ==
    LET nl == Find(s, "\n")
    IN  IF nl = 0 THEN <<s>>
        ELSE <<SubSeq(s, 1, nl - 1)>> \o SplitLines(SubSeq(s, nl + 1, Len(s)))

(***************************************************************************)
(* APIRequestGenerator                                                     *)
(***************************************************************************)
\* identify_api, from the answer of the model on
IdentifyApi(response) ==
    IF response.status_code = 200
    THEN LET parsed == JsonLoads(StripFences(response.content))
         IN  IF parsed.raised = "" THEN parsed ELSE [raised |-> "Exception"]
    ELSE [raised |-> "Exception"]

\* get_followup_questions, from the answer of the model on
GetFollowupQuestions(response) ==
    IF response.status_code = 200
    THEN LET questions == SplitLines(Strip(response.content))
         IN  [raised |-> "",
              value  |-> [i \in 1..(IF Len(questions) < 3 THEN Len(questions) ELSE 3)
                             |-> Strip(questions[i])]]
    ELSE [raised |-> "Exception"]

\* analyze_error, from the answer of the model on: the content is parsed as it is
AnalyzeError(response) ==
    IF response.status_code = 200
    THEN JsonLoads(response.content)
    ELSE [raised |-> "Exception"]

\* DesktopCredentialManager.get_credential; None is PyNone
GetCredential(credentials, service, account) ==
    LET service_creds == DictGet(credentials, service, EmptyDict)
    IN  DictGet(service_creds, account, PyNone)

\* DesktopCredentialManager.store_credential, as the stored document afterwards
StoreCredential(credentials, service, account, credential) ==
    LET c1 == SetDefault(credentials, service, EmptyDict)
    IN  DictSet(c1, service, DictSet(c1[service], account, PyStr(credential)))

(***************************************************************************)
(* DesktopCredentialManager over its file.  A file is [exists |-> FALSE]   *)
(* or [exists |-> TRUE, content |-> c], c being tokens as in a model       *)
(* answer; the JSON values in it are tagged with their Python type.        *)
(***************************************************************************)
\* _read_credentials: read_text() of a missing file raises, and only
\* JSONDecodeError is caught
ReadCredentials(file) ==
    IF ~file.exists THEN [raised |-> "FileNotFoundError"]
    ELSE IF JsonLoads(file.content).raised /= ""
    THEN [raised |-> "", value |-> PyDict(EmptyDict)]
    ELSE JsonLoads(file.content)

\* DesktopCredentialManager.get_credential on a file: .get of something
\* that is no dict raises
FileGetCredential(file, service, account) ==
    LET read == ReadCredentials(file)
    IN  IF read.raised /= "" THEN read
        ELSE IF read.value.type /= "dict" THEN [raised |-> "AttributeError"]
        ELSE IF DictGet(read.value.val, service, PyDict(EmptyDict)).type /= "dict"
        THEN [raised |-> "AttributeError"]
        ELSE [raised |-> "",
              value |-> DictGet(DictGet(read.value.val, service, PyDict(EmptyDict)).val,
                                account, PyNone)]

\* DesktopCredentialManager.store_credential on a file, with the file as the
\* call leaves it: the item assignments raise on something that is no dict,
\* else the file is written
FileStoreCredential(file, service, account, credential) ==
    LET read == ReadCredentials(file)
    IN  IF read.raised /= "" THEN [raised |-> read.raised, file |-> file]
        ELSE IF read.value.type /= "dict" THEN [raised |-> "TypeError", file |-> file]
        ELSE IF DictGet(read.value.val, service, PyDict(EmptyDict)).type /= "dict"
        THEN [raised |-> "TypeError", file |-> file]
        ELSE [raised |-> "",
              file |-> [exists |-> TRUE,
                        content |-> <<Json(PyDict(DictSet(read.value.val, service,
                            PyDict(DictSet(DictGet(read.value.val, service,
                                                   PyDict(EmptyDict)).val,
                                           account, PyStr(credential))))))>>]]

\* The key goes to the header only when the text is the word header itself.
KeyInHeader_Exact(auth_method) == auth_method = S_header

\* prepare_api_request, line 225
KeyInHeader(auth_method) == Contains(auth_method, S_header)

\* The validation of the prepared spec skipped.
PrepareValidate_Skipped(request_spec) == "ok"

\* prepare_api_request, lines 238-244
PrepareValidate(request_spec) == ValidateRequest(request_spec)

\* prepare_api_request
PrepareApiRequest(context, api_info, api_key) ==
    LET given    == DictGet(api_info, "base_url", <<>>)
        parsed   == Urlparse(api_info["documentation"])
        base_url == IF given = <<>> /\ "documentation" \in DOMAIN api_info
                    THEN parsed.scheme \o <<":", "/", "/">> \o parsed.netloc
                    ELSE given
        auth_method == Lower(DictGet(api_info, "authentication_method", <<>>))
        headers0 == (S_Content_Type :> PyStr(S_application_json))
                        @@ (S_Accept :> PyStr(S_application_json))
        headers  == IF KeyInHeader(auth_method)
                    THEN DictSet(headers0, S_Authorization, PyStr(S_Bearer \o api_key))
                    ELSE headers0
        params0  == IF KeyInHeader(auth_method)
                    THEN EmptyDict
                    ELSE DictSet(EmptyDict, S_apikey, PyStr(api_key))
        params   == IF context["answer1"] /= <<>> /\ context["answer1"] /= S_default
                    THEN DictSet(params0, S_q, PyStr(context["answer1"]))
                    ELSE params0
        request_spec == SetDefaultValues(
                            [url |-> base_url, method |-> S_GET, headers |-> headers,
                             params |-> params, body |-> PyNone],
                            api_info)
    IN  IF given = <<>> /\ "documentation" \in DOMAIN api_info /\ parsed.raised /= ""
        THEN [raised |-> parsed.raised]
        ELSE IF PrepareValidate(request_spec) = "ok"
        THEN [raised |-> "", value |-> request_spec]
        ELSE [raised |-> "ValidationError"]

\* The re-validation skipped.
Revalidate_Skipped(request_spec) == "ok"

\* execute_request, line 251
Revalidate(request_spec) == ValidateRequest(request_spec)

\* Any 2xx status taken for a success.
IsFailureStatus_Not2xx(status_code) == status_code \notin 200..299

\* execute_request, line 262
IsFailureStatus(status_code) == status_code /= 200

\* execute_request, from the outcome of line 251 (valid), the answer of the
\* target API and, when the request failed, the answer of the model to
\* analyze_error.  sent tells whether requests.request was called, status_code
\* of a raise is the status received.
ExecuteRequest(request_spec, valid, http, diagnosis) ==
    IF valid /= "ok"
    THEN [kind |-> "raise", exc |-> "Exception", cause |-> "ValidationError",
          sent |-> FALSE, status_code |-> 0]
    ELSE IF http.kind = "RequestException"
    THEN [kind |-> "raise", exc |-> "Exception", cause |-> "RequestException",
          sent |-> TRUE, status_code |-> 0]
    ELSE IF IsFailureStatus(http.status_code)
    THEN LET error_details == AnalyzeError(diagnosis)
         IN  IF error_details.raised /= ""
             THEN [kind |-> "raise", exc |-> error_details.raised,
                   cause |-> "analyze_error",
                   sent |-> TRUE, status_code |-> http.status_code]
             ELSE [kind |-> "return", error |-> TRUE,
                   status_code |-> http.status_code,
                   error_analysis |-> error_details.value,
                   original_request |-> request_spec, sent |-> TRUE]
    ELSE [kind |-> "return", error |-> FALSE, status_code |-> http.status_code,
          sent |-> TRUE]

\* analyze_error, lines 293-304: what the prompt sent to the model is built
\* from, the request with its headers and params as they were sent
AnalyzeErrorPrompt(status_code, original_request) ==
    [status_code |-> status_code,
     url     |-> original_request["url"],
     method  |-> original_request["method"],
     headers |-> original_request["headers"],
     params  |-> original_request["params"],
     body    |-> DictGet(original_request, "body", PyNone)]

(***************************************************************************)
(* Inputs of a session: what the user types, what the model answers, what  *)
(* the target API answers, what the credentials file holds at the start.   *)
(***************************************************************************)
MaxSends == 2

MaxPrompts == 2

MaxLines == 4

ApiName == <<"W">>

UrlApi == <<"h","t","t","p","s",":","/","/","a">>

UrlDocs == <<"H","T","T","P",":","/","/","d","/","k","e","y">>

UrlFtp == <<"f","t","p",":","/","/","a">>

UrlOther == <<"h","t","t","p",":","/","/","b","/","v">>

NoHost == <<"a",".","b">>

UrlBracket == <<"h","t","t","p",":","/","/","[">>

KeyGood == [i \in 1..MinKeyLen |-> "k"]

KeyShort == <<"k","e","y">>

KeyBang == [i \in 1..MinKeyLen |-> IF i = 2 THEN "!" ELSE "k"]

AuthHeader == <<"A","P","I"," ","k","e","y"," ","i","n"," ","H","e","a","d","e","r">>

AuthQuery == <<"q","u","e","r","y">>

AuthNone == <<"N","o","n","e">>

\* The descriptors the model may name: what json.loads returns in identify_api.
Descriptors ==
    { [name |-> ApiName, authentication_method |-> AuthHeader,
       base_url |-> UrlApi, documentation |-> UrlDocs],
      [name |-> ApiName, authentication_method |-> AuthNone,
       base_url |-> <<>>, documentation |-> UrlDocs],
      [name |-> ApiName, authentication_method |-> AuthQuery, base_url |-> <<>>],
      [name |-> ApiName, authentication_method |-> AuthQuery, base_url |-> UrlFtp],
      [name |-> ApiName, authentication_method |-> AuthNone,
       base_url |-> <<>>, documentation |-> UrlBracket],
      [name |-> ApiName, base_url |-> UrlApi] }

IdentifyAnswers ==
    {[status_code |-> 500, content |-> <<>>],
     [status_code |-> 200, content |-> <<Text>>]}
    \cup {[status_code |-> 200, content |-> <<Json(d)>>] : d \in Descriptors}
    \cup {[status_code |-> 200, content |-> <<FenceJson, Json(d), Fence>>] :
              d \in {e \in Descriptors : DictGet(e, "authentication_method", <<>>) = AuthHeader}}

\* n lines "Q", the last one followed by a newline
RECURSIVE QuestionLines(_)
QuestionLines(n) == IF n = 0 THEN <<>> ELSE <<"Q", "\n">> \o QuestionLines(n - 1)

QuestionAnswers ==
    {[status_code |-> 500, content |-> <<>>]}
    \cup {[status_code |-> 200, content |-> QuestionLines(n)] : n \in 0..MaxLines}

\* The request_updates a diagnosis may carry.
RequestUpdates ==
    { EmptyDict,
      [url |-> UrlOther],
      [params |-> EmptyDict],
      [method |-> S_POST],
      [url |-> NoHost, params |-> DictSet(EmptyDict, S_q, PyStr(<<"x">>)),
       method |-> <<"g","e","t">>] }

Prompts(n) == [i \in 1..n |-> <<"P">>]

ErrorAnalyses ==
    {[error_description |-> <<"e">>, suggested_fixes |-> <<>>,
      requires_user_input |-> TRUE, user_prompts |-> Prompts(n),
      request_updates |-> EmptyDict] : n \in 0..MaxPrompts}
    \cup
    {[error_description |-> <<"e">>, suggested_fixes |-> <<>>,
      requires_user_input |-> FALSE, user_prompts |-> <<>>,
      request_updates |-> u] : u \in RequestUpdates}

DiagnosisAnswers ==
    {[status_code |-> 500, content |-> <<>>],
     [status_code |-> 200, content |-> <<Text>>]}
    \cup {[status_code |-> 200, content |-> <<Json(a)>>] : a \in ErrorAnalyses}
    \cup {[status_code |-> 200, content |-> <<FenceJson, Json(a), Fence>>] :
              a \in {e \in ErrorAnalyses : e.request_updates = [url |-> UrlOther]}}

StatusCodes == {200, 201, 404}

HttpAnswers ==
    {[kind |-> "RequestException"]}
    \cup {[kind |-> "response", status_code |-> s] : s \in StatusCodes}

\* The name of an API the session does not use.
OtherApiName == <<"V">>

\* What the credentials file may hold when the session starts.
StoredCredentials ==
    { EmptyDict,
      DictSet(EmptyDict, ApiName, DictSet(EmptyDict, "api_key", PyStr(KeyGood))),
      DictSet(EmptyDict, ApiName, DictSet(EmptyDict, "api_key", PyStr(KeyShort))),
      DictSet(EmptyDict, OtherApiName, DictSet(EmptyDict, "api_key", PyStr(KeyGood))) }

YesNoInputs == {S_yes, <<"Y">>, <<"n">>}

GoalInputs == {S_help, <<" ","E","x","i","t">>, S_quit, <<"w">>}

KeyInputs == {KeyGood \o <<" ">>, KeyShort, KeyBang, <<>>}

AnswerInputs == {<<>>, <<"x">>}

MenuInputs == {<<"1">>, <<"2">>, <<"3">>, <<"4">>, <<"9">>}

UrlInputs == {UrlOther, UrlFtp \o <<" ">>}

ParamInputs == {<<>>, <<"q","=","y">>, <<"u","r","l"," ","="," ","y">>, <<"z">>}

HeaderInputs == {<<>>, <<"X","=","1">>}

MethodInputs == {<<"p","o","s","t">>, S_DELETE, S_PATCH}

(***************************************************************************)
(* The session: main().  pc is the input() call the session waits at.      *)
(***************************************************************************)
VARIABLES
    pc,            \* the prompt main() waits at, or "terminated"
    credentials,   \* the document of the credentials file
    api_info,      \* main: api_info
    api_key,       \* main: api_key
    questions,     \* main: questions
    context,       \* main: context (answer2 and answer3 are never read)
    request_spec,  \* main: request_spec
    user_prompts,  \* the prompts of the loop of line 492 still to ask
    result,        \* main: result, the outcome of the last execute_request
    last_sent,     \* the arguments of the last requests.request of execute_request
    n_sent,        \* the calls of requests.request for the current goal
    stages,        \* the stages the current goal has completed
    ev,            \* what the last step did
    call           \* a method called on its own: its arguments and what it returned

vars == <<pc, credentials, api_info, api_key, questions, context, request_spec,
          user_prompts, result, last_sent, n_sent, stages, ev, call>>

NoCall == [fn |-> "none"]

NoResult == [kind |-> "none"]

NoEvent == [step |-> "start", input |-> <<>>, verr |-> "", merr |-> "",
            exc |-> "", executed |-> FALSE, sent |-> FALSE, store_read |-> FALSE]

Event(step, input) == [NoEvent EXCEPT !.step = step, !.input = input]

Init ==
    /\ pc = "main_prompt"
    /\ credentials \in StoredCredentials
    /\ api_info = EmptyDict
    /\ api_key = <<>>
    /\ questions = <<>>
    /\ context = EmptyDict
    /\ request_spec = EmptyDict
    /\ user_prompts = <<>>
    /\ result = NoResult
    /\ last_sent = EmptyDict
    /\ n_sent = 0
    /\ stages = {}
    /\ ev = NoEvent
    /\ call = NoCall

\* ['yes', 'y'] of lines 180, 199, 430, 515 and 523
YesAnswers == {S_yes, S_y}

\* Where the session continues: the continue and break statements of main.
\* line 432
OnProceedDeclined == "main_prompt"

\* lines 437-439
OnCredentialValidationError == "main_prompt"

\* A break where line 461 has continue: the loop of line 409 is left.
OnPrepareValidationError_Break == "terminated"

\* lines 457-461
OnPrepareValidationError == "main_prompt"

\* The exception re-raised to the handler of line 592, which ends the session.
OnGoalException_Raise == "terminated"

\* lines 586-588, then the next iteration of the loop of line 409
OnGoalException == "main_prompt"

\* lines 530-532, then the break of line 533
OnExecuteException == "main_prompt"

\* lines 526-529, then the break of line 533
OnSuccess == "main_prompt"

\* Without the break of line 533 the preview loop goes on.
OnRetryDeclined_Preview == "preview"

\* lines 515-516 and 523-524, then the break of line 533
OnRetryDeclined == "main_prompt"

\* lines 579-581
OnCancel == "main_prompt"

\* The locals of an iteration of the loop of line 409 are assigned before they
\* are read in the next one; they are cleared when the iteration ends.
Leave(target) ==
    /\ pc' = target
    /\ IF target \in {"main_prompt", "terminated"}
       THEN /\ api_info' = EmptyDict
            /\ api_key' = <<>>
            /\ questions' = <<>>
            /\ context' = EmptyDict
            /\ request_spec' = EmptyDict
            /\ user_prompts' = <<>>
       ELSE UNCHANGED <<api_info, api_key, questions, context, request_spec,
                        user_prompts>>

\* Only the text "no auth" taken for an API that needs no key.
NoAuthenticationNeeded_NoAuthOnly(auth_method) == auth_method = S_no_auth

\* handle_credentials, line 164
NoAuthenticationNeeded(auth_method) ==
    Contains(auth_method, S_no) \/ Contains(auth_method, S_none)

\* The stored key returned as it is, as the definition of handle_credentials
\* at line 28 does.
ValidateExistingKey_Unchecked(existing_key, auth_method) == "ok"

\* handle_credentials, lines 182-186
ValidateExistingKey(existing_key, auth_method) ==
    ValidateApiKey(existing_key, auth_method)

\* Any answer taken for a yes.
ProceedAccepted_Always(proceed) == TRUE

\* line 430
ProceedAccepted(proceed) == proceed \in YesAnswers

\* Any answer but "no" taken for a yes.
RetryAccepted_NotNo(retry) == retry /= S_no

\* lines 515 and 523
RetryAccepted(retry) == retry \in YesAnswers

\* The patch dropped.
ApplyRequestUpdates_Dropped(spec, request_updates) == spec

\* line 519: request_spec.update(error_analysis['request_updates'])
ApplyRequestUpdates(spec, request_updates) == DictUpdate(spec, request_updates)

\* line 508: the call of a method the class does not define
GetUpdatedRequestSpec == [raised |-> "AttributeError"]

Prompting == pc /= "terminated"

\* line 410, an input that asks for help
MainPromptHelp(inp) ==
    /\ pc = "main_prompt"
    /\ UNCHANGED call
    /\ StartsWith(Lower(Strip(inp)), S_help)
    /\ ev' = Event("MainPrompt", inp)
    /\ UNCHANGED <<pc, credentials, api_info, api_key, questions, context,
                   request_spec, user_prompts, result, last_sent, n_sent, stages>>

\* line 410, exit or quit
MainPromptExit(inp) ==
    /\ pc = "main_prompt"
    /\ UNCHANGED call
    /\ ~StartsWith(Lower(Strip(inp)), S_help)
    /\ Lower(Strip(inp)) \in {S_exit, S_quit}
    /\ Leave("terminated")
    /\ ev' = Event("MainPrompt", inp)
    /\ UNCHANGED <<credentials, result, last_sent, n_sent, stages>>

\* line 410, a goal: identify_api and the preview of the descriptor
MainPromptGoal(inp, identified) ==
    /\ pc = "main_prompt"
    /\ UNCHANGED call
    /\ ~StartsWith(Lower(Strip(inp)), S_help)
    /\ Lower(Strip(inp)) \notin {S_exit, S_quit}
    /\ result' = NoResult
    /\ last_sent' = EmptyDict
    /\ n_sent' = 0
    /\ UNCHANGED credentials
    /\ LET r == IdentifyApi(identified)
       IN  IF r.raised /= ""
           THEN /\ Leave(OnGoalException)
                /\ stages' = {}
                /\ ev' = [Event("MainPrompt", inp) EXCEPT
                             !.merr = "identify_api", !.exc = r.raised]
           ELSE /\ pc' = "confirm"
                /\ api_info' = r.value
                /\ stages' = {"identified"}
                /\ ev' = Event("MainPrompt", inp)
                /\ UNCHANGED <<api_key, questions, context, request_spec, user_prompts>>

\* lines 441-443: handle_credentials has returned key; the questions are asked for
GenerateQuestions(asked, key, evt, done) ==
    LET q == GetFollowupQuestions(asked)
    IN  IF q.raised /= ""
        THEN /\ Leave(OnGoalException)
             /\ stages' = done \cup {"credentials"}
             /\ ev' = [evt EXCEPT !.merr = "get_followup_questions", !.exc = q.raised]
        ELSE /\ pc' = "answer1"
             /\ api_key' = key
             /\ questions' = q.value
             /\ stages' = done \cup {"credentials", "questions"}
             /\ ev' = evt
             /\ UNCHANGED <<api_info, context, request_spec, user_prompts>>

\* line 429, and handle_credentials up to its first input()
Confirm(inp, asked) ==
    /\ pc = "confirm"
    /\ UNCHANGED call
    /\ UNCHANGED <<credentials, result, last_sent, n_sent>>
    /\ LET evt  == Event("Confirm", inp)
           done == stages \cup (IF Lower(inp) \in {S_yes, S_y} THEN {"confirmed"} ELSE {})
       IN  IF ~ProceedAccepted(Lower(inp))
           THEN Leave(OnProceedDeclined) /\ ev' = evt /\ stages' = done
           ELSE IF ~({"name", "authentication_method"} \subseteq DOMAIN api_info)
           THEN /\ Leave(OnGoalException)
                /\ ev' = [evt EXCEPT !.exc = "KeyError"]
                /\ stages' = done
           ELSE LET auth_method  == Lower(api_info["authentication_method"])
                    existing_key == GetCredential(credentials, api_info["name"], "api_key")
                IN  IF NoAuthenticationNeeded(auth_method)
                    THEN GenerateQuestions(asked, <<>>, evt, done)
                    ELSE /\ pc' = IF IsStr(existing_key) /\ existing_key.val /= <<>>
                                  THEN "use_existing" ELSE "enter_key"
                         /\ ev' = [evt EXCEPT !.store_read = TRUE]
                         /\ stages' = done
                         /\ UNCHANGED <<api_info, api_key, questions, context,
                                        request_spec, user_prompts>>

\* handle_credentials, line 179
UseExisting(inp, asked) ==
    /\ pc = "use_existing"
    /\ UNCHANGED call
    /\ UNCHANGED <<credentials, result, last_sent, n_sent>>
    /\ LET evt          == Event("UseExisting", inp)
           auth_method  == Lower(api_info["authentication_method"])
           existing_key == GetCredential(credentials, api_info["name"], "api_key").val
           valid        == ValidateExistingKey(existing_key, auth_method)
       IN  IF Lower(inp) \in YesAnswers /\ valid = "ok"
           THEN GenerateQuestions(asked, existing_key, evt, stages)
           ELSE /\ pc' = "enter_key"
                /\ ev' = IF Lower(inp) \in YesAnswers
                         THEN [evt EXCEPT !.verr = "handle_credentials"]
                         ELSE evt
                /\ UNCHANGED <<api_info, api_key, questions, context, request_spec,
                               user_prompts, stages>>

\* handle_credentials, line 190
EnterKey(inp) ==
    /\ pc = "enter_key"
    /\ UNCHANGED call
    /\ UNCHANGED <<credentials, result, last_sent, n_sent, api_info, questions,
                   context, request_spec, user_prompts, stages>>
    /\ LET key   == Strip(inp)
           valid == ValidateApiKey(key, Lower(api_info["authentication_method"]))
       IN  IF valid = "ok"
           THEN pc' = "save_key" /\ api_key' = key /\ ev' = Event("EnterKey", inp)
           ELSE /\ pc' = "enter_key"
                /\ api_key' = api_key
                /\ ev' = [Event("EnterKey", inp) EXCEPT !.verr = "handle_credentials"]

\* The key saved whatever the answer.
SaveAccepted_Always(save_key) == TRUE

\* handle_credentials, line 199
SaveAccepted(save_key) == save_key \in YesAnswers

\* handle_credentials, line 198
SaveKey(inp, asked) ==
    /\ pc = "save_key"
    /\ UNCHANGED call
    /\ UNCHANGED <<result, last_sent, n_sent>>
    /\ credentials' = IF SaveAccepted(Lower(inp))
                      THEN StoreCredential(credentials, api_info["name"], "api_key", api_key)
                      ELSE credentials
    /\ GenerateQuestions(asked, api_key, Event("SaveKey", inp), stages)

\* input() or "default"
Answer(inp) == IF Strip(inp) = <<>> THEN S_default ELSE Strip(inp)

\* line 448, then questions[1] of line 449
Answer1(inp) ==
    /\ pc = "answer1"
    /\ UNCHANGED call
    /\ UNCHANGED <<credentials, result, last_sent, n_sent, stages>>
    /\ IF Len(questions) < 2
       THEN Leave(OnGoalException)
            /\ ev' = [Event("Answer1", inp) EXCEPT !.exc = "IndexError"]
       ELSE /\ pc' = "answer2"
            /\ context' = DictSet(EmptyDict, "answer1", Answer(inp))
            /\ ev' = Event("Answer1", inp)
            /\ UNCHANGED <<api_info, api_key, questions, request_spec, user_prompts>>

\* line 449, then questions[2] of line 450
Answer2(inp) ==
    /\ pc = "answer2"
    /\ UNCHANGED call
    /\ UNCHANGED <<credentials, result, last_sent, n_sent, stages>>
    /\ IF Len(questions) < 3
       THEN Leave(OnGoalException)
            /\ ev' = [Event("Answer2", inp) EXCEPT !.exc = "IndexError"]
       ELSE /\ pc' = "answer3"
            /\ ev' = Event("Answer2", inp)
            /\ UNCHANGED <<api_info, api_key, questions, context, request_spec,
                           user_prompts>>

\* lines 455-461 and 586-588: what main does with the outcome r of
\* prepare_api_request
Prepared(evt, r) ==
    IF r.raised = "ValidationError"
    THEN /\ Leave(OnPrepareValidationError)
         /\ stages' = stages \cup {"answered"}
         /\ ev' = [evt EXCEPT !.verr = "prepare_api_request", !.exc = r.raised]
    ELSE IF r.raised /= ""
    THEN /\ Leave(OnGoalException)
         /\ stages' = stages \cup {"answered"}
         /\ ev' = [evt EXCEPT !.exc = r.raised]
    ELSE /\ pc' = "preview"
         /\ request_spec' = r.value
         /\ stages' = stages \cup {"answered", "prepared"}
         /\ ev' = evt
         /\ UNCHANGED <<api_info, api_key, questions, context, user_prompts>>

\* line 450, then prepare_api_request
Answer3(inp) ==
    /\ pc = "answer3"
    /\ UNCHANGED call
    /\ UNCHANGED <<credentials, result, last_sent, n_sent>>
    /\ Prepared(Event("Answer3", inp), PrepareApiRequest(context, api_info, api_key))

\* lines 498-516: the prompts are answered, the patch is asked for
AfterPrompts(evt) ==
    /\ GetUpdatedRequestSpec.raised /= ""
    /\ Leave(OnExecuteException)
    /\ ev' = [evt EXCEPT !.exc = GetUpdatedRequestSpec.raised]

\* What execute_request may do with request_spec, over the answers of the
\* target API and of the model.
ExecuteOutcomes(spec) ==
    LET valid == Revalidate(spec)
    IN  {ExecuteRequest(spec, valid, http, diagnosis) :
             http \in HttpAnswers, diagnosis \in DiagnosisAnswers}

\* lines 479-532: one pass of the retry loop, up to its next input(); r is
\* what execute_request did
RunExecute(evt, r, done) ==
    LET evx == [evt EXCEPT !.executed = TRUE, !.sent = r.sent]
    IN  /\ result' = r
        /\ n_sent' = n_sent + (IF r.sent THEN 1 ELSE 0)
        /\ last_sent' = IF r.sent THEN request_spec ELSE last_sent
        /\ stages' = done
        /\ UNCHANGED credentials
        /\ IF r.kind = "raise"
           THEN /\ Leave(OnExecuteException)
                /\ ev' = [evx EXCEPT
                             !.exc = r.exc,
                             !.verr = IF r.cause = "ValidationError"
                                      THEN "execute_request" ELSE "",
                             !.merr = IF r.cause = "analyze_error"
                                      THEN "analyze_error" ELSE ""]
           ELSE IF ~r.error
           THEN Leave(OnSuccess) /\ ev' = evx
           ELSE IF r.error_analysis["requires_user_input"]
           THEN IF r.error_analysis["user_prompts"] = <<>>
                THEN AfterPrompts(evx)
                ELSE /\ pc' = "repair_prompt"
                     /\ user_prompts' = r.error_analysis["user_prompts"]
                     /\ ev' = evx
                     /\ UNCHANGED <<api_info, api_key, questions, context, request_spec>>
           ELSE /\ pc' = "retry_offer"
                /\ request_spec' =
                       ApplyRequestUpdates(request_spec, r.error_analysis["request_updates"])
                /\ ev' = evx
                /\ UNCHANGED <<api_info, api_key, questions, context, user_prompts>>

\* line 473, the menu of the preview
Preview(inp) ==
    /\ pc = "preview"
    /\ UNCHANGED call
    /\ LET choice == Strip(inp)
           evt    == Event("Preview", inp)
       IN  IF choice = <<"1">>
           THEN /\ n_sent < MaxSends
                /\ \E r \in ExecuteOutcomes(request_spec) :
                       RunExecute(evt, r, stages \cup {"execute_chosen"})
           ELSE /\ UNCHANGED <<credentials, result, last_sent, n_sent, stages>>
                /\ ev' = evt
                /\ IF choice = <<"2">>
                   THEN /\ pc' = "modify"
                        /\ UNCHANGED <<api_info, api_key, questions, context,
                                       request_spec, user_prompts>>
                   ELSE IF choice = <<"3">>
                   THEN Leave(OnCancel)
                   ELSE /\ pc' = "preview"
                        /\ UNCHANGED <<api_info, api_key, questions, context,
                                       request_spec, user_prompts>>

\* line 541, the menu of the modifications
Modify(inp) ==
    /\ pc = "modify"
    /\ UNCHANGED call
    /\ LET mod_choice == Strip(inp)
       IN  pc' = IF mod_choice = <<"1">> THEN "modify_url"
                 ELSE IF mod_choice = <<"2">> THEN "modify_params"
                 ELSE IF mod_choice = <<"3">> THEN "modify_headers"
                 ELSE IF mod_choice = <<"4">> THEN "modify_method"
                 ELSE "preview"
    /\ ev' = Event("Modify", inp)
    /\ UNCHANGED <<credentials, api_info, api_key, questions, context, request_spec,
                   user_prompts, result, last_sent, n_sent, stages>>

\* lines 544-545
ModifyUrl(inp) ==
    /\ pc = "modify_url"
    /\ UNCHANGED call
    /\ request_spec' = DictSet(request_spec, "url", Strip(inp))
    /\ pc' = "preview"
    /\ ev' = Event("ModifyUrl", inp)
    /\ UNCHANGED <<credentials, api_info, api_key, questions, context,
                   user_prompts, result, last_sent, n_sent, stages>>

\* key, value = line.split('=', 1), both stripped
KeyOf(line) == Strip(SubSeq(line, 1, Find(line, "=") - 1))

ValueOf(line) == Strip(SubSeq(line, Find(line, "=") + 1, Len(line)))

\* lines 550-557 and 562-569: one line of the updates of params or of headers
ModifyEntry(field, line) ==
    IF Find(line, "=") = 0 THEN request_spec
    ELSE LET d == SetDefault(request_spec, field, EmptyDict)
         IN  DictSet(d, field, DictSet(d[field], KeyOf(line), PyStr(ValueOf(line))))

\* lines 550-557
ModifyParams(inp) ==
    /\ pc = "modify_params"
    /\ UNCHANGED call
    /\ LET param_input == Strip(inp)
       IN  IF param_input = <<>>
           THEN pc' = "preview" /\ request_spec' = request_spec
           ELSE pc' = "modify_params" /\ request_spec' = ModifyEntry("params", param_input)
    /\ ev' = Event("ModifyParams", inp)
    /\ UNCHANGED <<credentials, api_info, api_key, questions, context,
                   user_prompts, result, last_sent, n_sent, stages>>

\* lines 562-569
ModifyHeaders(inp) ==
    /\ pc = "modify_headers"
    /\ UNCHANGED call
    /\ LET header_input == Strip(inp)
       IN  IF header_input = <<>>
           THEN pc' = "preview" /\ request_spec' = request_spec
           ELSE pc' = "modify_headers" /\ request_spec' = ModifyEntry("headers", header_input)
    /\ ev' = Event("ModifyHeaders", inp)
    /\ UNCHANGED <<credentials, api_info, api_key, questions, context,
                   user_prompts, result, last_sent, n_sent, stages>>

\* lines 571-575
ModifyMethod(inp) ==
    /\ pc = "modify_method"
    /\ UNCHANGED call
    /\ LET new_method == Upper(Strip(inp))
       IN  request_spec' = IF new_method \in {S_GET, S_POST, S_PUT, S_DELETE}
                           THEN DictSet(request_spec, "method", new_method)
                           ELSE request_spec
    /\ pc' = "preview"
    /\ ev' = Event("ModifyMethod", inp)
    /\ UNCHANGED <<credentials, api_info, api_key, questions, context,
                   user_prompts, result, last_sent, n_sent, stages>>

\* lines 492-496: the answer to one prompt; after the last one, lines 498-516
RepairAnswer(inp) ==
    /\ pc = "repair_prompt"
    /\ UNCHANGED call
    /\ UNCHANGED <<credentials, result, last_sent, n_sent, stages>>
    /\ IF Len(user_prompts) > 1
       THEN /\ pc' = "repair_prompt"
            /\ user_prompts' = Tail(user_prompts)
            /\ ev' = Event("RepairAnswer", inp)
            /\ UNCHANGED <<api_info, api_key, questions, context, request_spec>>
       ELSE AfterPrompts(Event("RepairAnswer", inp))

\* lines 514-516 and 522-524
RetryOffer(inp) ==
    /\ pc = "retry_offer"
    /\ UNCHANGED call
    /\ LET retry == Lower(inp)
           evt   == Event("RetryOffer", inp)
       IN  IF RetryAccepted(retry)
           THEN /\ n_sent < MaxSends
                /\ \E r \in ExecuteOutcomes(request_spec) : RunExecute(evt, r, stages)
           ELSE /\ Leave(OnRetryDeclined)
                /\ ev' = evt
                /\ UNCHANGED <<credentials, result, last_sent, n_sent, stages>>

\* lines 590-591: Ctrl-C at an input()
Interrupt ==
    /\ Prompting
    /\ UNCHANGED call
    /\ Leave("terminated")
    /\ ev' = [Event("Interrupt", <<>>) EXCEPT !.exc = "KeyboardInterrupt"]
    /\ UNCHANGED <<credentials, result, last_sent, n_sent, stages>>

Next ==
    \/ \E inp \in GoalInputs : MainPromptHelp(inp)
    \/ \E inp \in GoalInputs : MainPromptExit(inp)
    \/ \E inp \in GoalInputs, identified \in IdentifyAnswers : MainPromptGoal(inp, identified)
    \/ \E inp \in YesNoInputs, asked \in QuestionAnswers : Confirm(inp, asked)
    \/ \E inp \in YesNoInputs, asked \in QuestionAnswers : UseExisting(inp, asked)
    \/ \E inp \in KeyInputs : EnterKey(inp)
    \/ \E inp \in YesNoInputs, asked \in QuestionAnswers : SaveKey(inp, asked)
    \/ \E inp \in AnswerInputs : Answer1(inp)
    \/ \E inp \in AnswerInputs : Answer2(inp)
    \/ \E inp \in AnswerInputs : Answer3(inp)
    \/ \E inp \in MenuInputs : Preview(inp)
    \/ \E inp \in MenuInputs : Modify(inp)
    \/ \E inp \in UrlInputs : ModifyUrl(inp)
    \/ \E inp \in ParamInputs : ModifyParams(inp)
    \/ \E inp \in HeaderInputs : ModifyHeaders(inp)
    \/ \E inp \in MethodInputs : ModifyMethod(inp)
    \/ \E inp \in AnswerInputs : RepairAnswer(inp)
    \/ \E inp \in YesNoInputs : RetryOffer(inp)
    \/ Interrupt

Spec == Init /\ [][Next]_vars

(***************************************************************************)
(* set_default_values called on its own, and again on what it returned.    *)
(***************************************************************************)
MaxCalls == 2

HeaderInputsOf ==
    { EmptyDict,
      DictSet(EmptyDict, S_Content_Type, PyStr(<<"x">>)),
      DictSet(EmptyDict, S_Accept, PyStr(<<"x">>)),
      DictSet(DictSet(EmptyDict, S_Accept, PyStr(<<"x">>)),
              S_Authorization, PyStr(S_Bearer \o KeyShort)) }

ParamsInputsOf == {EmptyDict, DictSet(EmptyDict, S_q, PyStr(<<"x">>))}

\* A request spec holds any of its fields or lacks it.
SpecFields(url, method, headers, params, body, timeout) ==
    [k \in (IF url = {} THEN {} ELSE {"url"})
           \cup (IF method = {} THEN {} ELSE {"method"})
           \cup (IF headers = {} THEN {} ELSE {"headers"})
           \cup (IF params = {} THEN {} ELSE {"params"})
           \cup (IF body = {} THEN {} ELSE {"body"})
           \cup (IF timeout = {} THEN {} ELSE {"timeout"})
        |-> CASE k = "url" -> CHOOSE v \in url : TRUE
              [] k = "method" -> CHOOSE v \in method : TRUE
              [] k = "headers" -> CHOOSE v \in headers : TRUE
              [] k = "params" -> CHOOSE v \in params : TRUE
              [] k = "body" -> CHOOSE v \in body : TRUE
              [] k = "timeout" -> CHOOSE v \in timeout : TRUE]

Optional(values) == {{}} \cup {{v} : v \in values}

SpecInputs ==
    { SpecFields(url, method, headers, params, body, timeout) :
          url \in Optional({UrlApi}), method \in Optional({S_POST}),
          headers \in Optional(HeaderInputsOf), params \in Optional(ParamsInputsOf),
          body \in Optional({PyNone}), timeout \in Optional({5, 0}) }

InitDefaults ==
    /\ pc = "main_prompt"
    /\ credentials = EmptyDict
    /\ api_info = EmptyDict
    /\ api_key = <<>>
    /\ questions = <<>>
    /\ context = EmptyDict
    /\ request_spec = EmptyDict
    /\ user_prompts = <<>>
    /\ result = NoResult
    /\ last_sent = EmptyDict
    /\ n_sent = 0
    /\ stages = {}
    /\ ev = NoEvent
    /\ \E s \in SpecInputs, d \in Descriptors :
           call = [fn |-> "set_default_values", given |-> s, request_spec |-> s,
                   api_info |-> d, returned |-> <<>>]

\* validator.set_default_values(request_spec, api_info), the first time on the
\* spec given and then on the spec it returned
CallSetDefaultValues ==
    /\ call.fn = "set_default_values"
    /\ Len(call.returned) < MaxCalls
    /\ LET argument == IF call.returned = <<>>
                       THEN call.request_spec
                       ELSE call.returned[Len(call.returned)]
       IN  call' = [call EXCEPT
                       !.returned = Append(@, SetDefaultValues(argument, call.api_info)),
                       !.request_spec =
                           IF call.returned = <<>>
                           THEN SetDefaultValuesArgument(argument, call.api_info)
                           ELSE @]
    /\ UNCHANGED <<pc, credentials, api_info, api_key, questions, context, request_spec,
                   user_prompts, result, last_sent, n_sent, stages, ev>>

NextDefaults == CallSetDefaultValues

SpecDefaults == InitDefaults /\ [][NextDefaults]_vars

(***************************************************************************)
(* The methods of RequestValidator and prepare_api_request called on their *)
(* own, once, on arguments drawn from the sets below.                      *)
(***************************************************************************)
KeyOfLen(n) == [i \in 1..n |-> "k"]

KeyTails == {"-", "_", "A", "9", "!", " ", ".", "\n"}

ApiKeyInputs ==
    {KeyOfLen(n) : n \in 0..(MinKeyLen + 1)}
    \cup {KeyOfLen(n) \o <<c>> : n \in {0, MinKeyLen - 2, MinKeyLen - 1, MinKeyLen},
                                c \in KeyTails}
    \cup {KeyBang, <<"\n">> \o KeyGood}

AuthMethodInputs == {S_header, S_none, AuthQuery}

UrlPortOnly == <<"h","t","t","p","s",":","/","/",":","8","0">>

UrlUserOnly == <<"h","t","t","p",":","/","/","u","@","/","p">>

UrlCalls ==
    { UrlApi, UrlDocs, UrlFtp, UrlOther, NoHost, <<>>, UrlPortOnly, UrlUserOnly,
      <<"h","t","t","p",":","/","/">>,
      <<"h","t","t","p",":","/","/","/","p">>,
      <<"h","t","t","p",":","/","/","?","q">>,
      <<"/","/","a">>,
      <<"h","t","t","p",":","a">>,
      <<":","/","/","a">>,
      <<"1","h",":","/","/","a">>,
      <<"m","a","i","l","t","o",":","x">>,
      <<"h","t","t","p","s",":","/","/","u","@","a",":","8","/","p">>,
      UrlBracket,
      <<"h","t","t","p",":","/","/","[",":",":","1","]">>,
      <<"H","t","t","p","S",":","/","/","a",".","b","#","f">> }

BodyInputs ==
    { PyNone,
      PyStr(<<"{","}">>),
      PyStr(<<"x">>),
      [type |-> "dict", val |-> EmptyDict] }

RequestInputs ==
    { SpecFields(url, method, headers, params, body, {}) :
          url \in Optional({UrlApi, UrlFtp}),
          method \in Optional({S_POST, <<"p","o","s","t">>, <<"P","u","t">>, S_PATCH,
                               S_GET, <<"H","E","A","D">>}),
          headers \in Optional({EmptyDict, DictSet(EmptyDict, S_Accept, PyStr(<<>>))}),
          params \in Optional({EmptyDict, DictSet(EmptyDict, S_q, PyNone)}),
          body \in Optional(BodyInputs) }

ContextInputs ==
    {DictSet(EmptyDict, "answer1", a) : a \in {S_default, <<"x">>, <<>>}}

DescriptorInputs ==
    Descriptors
    \cup { [name |-> ApiName, authentication_method |-> <<"H","E","A","D","E","R">>,
            base_url |-> UrlOther],
           [name |-> ApiName, authentication_method |-> AuthHeader,
            base_url |-> <<>>, documentation |-> NoHost],
           [name |-> ApiName, authentication_method |-> AuthQuery,
            base_url |-> <<>>, documentation |-> UrlBracket],
           [name |-> ApiName, authentication_method |-> AuthQuery,
            documentation |-> UrlDocs] }

EmailGood == <<"a","@","b",".","c","o">>

DateGood == <<"2","0","2","4","-","0","1","-","3","1">>

ParamKeyInputs ==
    { S_q, <<"Q","u","e","r","y">>, <<"e","-","m","a","i","l">>, <<>>,
      <<"E","m","a","i","l">>, <<"d","a","t","e">>, <<"A","P","I","_","K","E","Y">>,
      S_url, <<"e","m","a","i","l","_","u","r","l">>, <<"u","r","l","_","d","a","t","e">> }

ParamValueInputs ==
    { PyNone, PyInt(5), PyStr(<<>>), PyStr(<<"x">>), PyStr(EmailGood), PyStr(DateGood),
      PyStr(KeyGood), PyStr(UrlApi), PyStr(<<"h","t","t","p",":","/","/">>) }

\* the mappings of one parameter, and those of the parameter q and one more
ParamsCalls ==
    {EmptyDict}
    \cup {DictSet(EmptyDict, k, v) : k \in ParamKeyInputs, v \in ParamValueInputs}
    \cup {DictSet(DictSet(EmptyDict, S_q, w), k, v) :
              w \in {PyNone, PyStr(<<"x">>)},
              k \in {<<"Q","u","e","r","y">>, <<"d","a","t","e">>},
              v \in {PyNone, PyStr(<<"x">>), PyStr(DateGood)}}

\* Texts that json.loads reads.
JsonTexts ==
    { <<"{","}">>,
      <<"{","\"","a","\"",":","1","}">>,
      <<"4","2">>,
      <<" ","[","1",","," ","2","]"," ">>,
      <<"\"","s","\"">>,
      <<"N","a","N">>,
      <<"-","1",".","5","e","3">>,
      <<"n","u","l","l">>,
      <<"t","r","u","e">>,
      <<"[","]">>,
      <<"{","\"","a","\"",":"," ","[","1",","," ","{","\"","b","\"",":"," ","n","u","l","l","}","]","}">>,
      <<"\"","a","\\","n","\"">>,
      <<"0">>,
      <<"1","E","+","2">>,
      <<"-","I","n","f","i","n","i","t","y">>,
      <<"\t","["," ","]","\n">> }

\* Texts that json.loads refuses.
NotJsonTexts ==
    { <<"n","o","t"," ","j","s","o","n">>,
      <<>>,
      <<"n","u","l">>,
      <<"{","'","a","'",":","1","}">>,
      <<"[","1",",","]">>,
      <<"{","\"","a","\"",":","1",",","}">>,
      <<"t","r","u"," ","e">>,
      <<"0","1">>,
      <<"-">>,
      <<"1",".">>,
      <<".","5">>,
      <<"[","]","x">>,
      <<"{","\"","a","\"","}">>,
      <<"[","1"," ","2","]">>,
      <<"\"","s">>,
      <<"{">>,
      <<"+","1">>,
      <<"1","e">>,
      <<"{","1",":","2","}">>,
      <<"\"","a","\n","b","\"">>,
      <<"\"","\\","x","\"">>,
      <<"1"," ","2">>,
      <<"{","\"","a","\"",":","1"," ","\"","b","\"",":","2","}">> }

\* Bodies that json.dumps writes, bodies that it refuses, and bodies that are
\* neither dict, list nor str.
DumpableBodies ==
    { PyDict(EmptyDict),
      PyDict(DictSet(EmptyDict, S_q, PyInt(1))),
      PyDict(DictSet(EmptyDict, S_q, [type |-> "tuple", val |-> <<PyInt(1)>>])),
      [type |-> "list", val |-> <<>>],
      [type |-> "list", val |-> <<PyStr(S_q), PyNone>>],
      [type |-> "list", val |-> <<[type |-> "float", val |-> 1], [type |-> "bool", val |-> TRUE]>>] }

UndumpableBodies ==
    { PyDict(DictSet(EmptyDict, S_q, [type |-> "set", val |-> {1, 2}])),
      PyDict(DictSet(EmptyDict, S_q, [type |-> "bytes", val |-> <<"x">>])),
      [type |-> "list", val |-> <<PyDict(DictSet(EmptyDict, S_q, [type |-> "set", val |-> {1}]))>>] }

OtherBodies ==
    { PyInt(42), [type |-> "float", val |-> 1], [type |-> "bool", val |-> TRUE], PyNone,
      [type |-> "tuple", val |-> <<PyInt(1), PyInt(2)>>],
      [type |-> "bytes", val |-> <<"{", "}">>],
      [type |-> "set", val |-> {1, 2}] }

BodyCalls ==
    {PyStr(t) : t \in JsonTexts \cup NotJsonTexts}
    \cup DumpableBodies \cup UndumpableBodies \cup OtherBodies

\* Parameter names that differ in case only, and others.
P_Query == <<"Q","u","e","r","y">>
P_query == <<"q","u","e","r","y">>
P_QUERY == <<"Q","U","E","R","Y">>
P_limit == <<"l","i","m","i","t">>

UpdateSpecInputs ==
    { SpecFields(url, {}, {}, params, {}, {}) :
          url \in Optional({UrlApi}),
          params \in Optional({ <<>>,
                                <<<<P_Query, PyStr(<<"x">>)>>>>,
                                <<<<P_limit, PyInt(5)>>, <<P_Query, PyStr(<<"x">>)>>>>,
                                <<<<P_query, PyStr(<<"z">>)>>, <<P_Query, PyStr(<<"x">>)>>>> }) }

UserResponsesInputs ==
    { [k \in (IF url = {} THEN {} ELSE {"url"})
             \cup (IF updates = {} THEN {} ELSE {"parameter_updates"})
          |-> IF k = "url" THEN CHOOSE v \in url : TRUE
              ELSE CHOOSE v \in updates : TRUE] :
          url \in Optional({UrlOther}),
          updates \in Optional({ <<>>,
                                 <<<<P_query, PyStr(<<"y">>)>>>>,
                                 <<<<P_QUERY, PyStr(<<"y">>)>>, <<P_limit, PyInt(9)>>>>,
                                 <<<<P_query, PyInt(1)>>, <<P_QUERY, PyInt(2)>>>> }) }


\* What the credentials file may be when an operation of the store starts.
CredentialFiles ==
    { [exists |-> FALSE],
      [exists |-> TRUE, content |-> <<>>],
      [exists |-> TRUE, content |-> <<Text>>] }
    \cup { [exists |-> TRUE, content |-> <<Json(v)>>] :
               v \in { PyDict(EmptyDict),
                       PyDict(DictSet(EmptyDict, ApiName,
                                      PyDict(DictSet(EmptyDict, "api_key", PyStr(KeyGood))))),
                       PyDict(DictSet(EmptyDict, ApiName, PyStr(KeyGood))),
                       [type |-> "list", val |-> <<>>],
                       PyInt(5),
                       PyNone } }

CallInputs ==
    {[fn |-> "validate_api_key", api_key |-> k, auth_method |-> a,
      done |-> FALSE, returned |-> ""] : k \in ApiKeyInputs, a \in AuthMethodInputs}
    \cup {[fn |-> "validate_url", url |-> u, done |-> FALSE, returned |-> ""] :
              u \in UrlCalls}
    \cup {[fn |-> "validate_request", request_spec |-> r, done |-> FALSE,
           returned |-> ""] : r \in RequestInputs}
    \cup {[fn |-> "prepare_api_request", context |-> c, api_info |-> d, api_key |-> k,
           done |-> FALSE, returned |-> [raised |-> ""]] :
              c \in ContextInputs, d \in DescriptorInputs, k \in {KeyGood, <<>>}}
    \cup {[fn |-> "validate_parameters", params |-> p, done |-> FALSE,
           returned |-> ""] : p \in ParamsCalls}
    \cup {[fn |-> "validate_body", body |-> b, done |-> FALSE, returned |-> ""] :
              b \in BodyCalls}
    \cup {[fn |-> "update_request_with_user_input", request_spec |-> r,
           user_responses |-> u, done |-> FALSE, returned |-> EmptyDict,
           argument |-> r] : r \in UpdateSpecInputs, u \in UserResponsesInputs}
    \cup {[fn |-> "identify_api", response |-> a, done |-> FALSE,
           returned |-> [raised |-> ""]] : a \in IdentifyAnswers}
    \cup {[fn |-> "analyze_error", response |-> a, done |-> FALSE,
           returned |-> [raised |-> ""]] : a \in DiagnosisAnswers}
    \cup {[fn |-> "get_credential", file |-> f, service |-> ApiName,
           account |-> "api_key", done |-> FALSE, returned |-> [raised |-> ""]] :
              f \in CredentialFiles}
    \cup {[fn |-> "store_credential", file |-> f, service |-> ApiName,
           account |-> "api_key", credential |-> k, done |-> FALSE,
           returned |-> [raised |-> ""]] : f \in CredentialFiles, k \in {KeyGood, KeyShort}}

InitCalls ==
    /\ pc = "main_prompt"
    /\ credentials = EmptyDict
    /\ api_info = EmptyDict
    /\ api_key = <<>>
    /\ questions = <<>>
    /\ context = EmptyDict
    /\ request_spec = EmptyDict
    /\ user_prompts = <<>>
    /\ result = NoResult
    /\ last_sent = EmptyDict
    /\ n_sent = 0
    /\ stages = {}
    /\ ev = NoEvent
    /\ call \in CallInputs

\* what a call leaves alone: the session
SessionUnchanged ==
    UNCHANGED <<pc, credentials, api_info, api_key, questions, context, request_spec,
                user_prompts, result, last_sent, n_sent, stages, ev>>

\* validator.validate_api_key(api_key, auth_method)
CallValidateApiKey ==
    /\ call.fn = "validate_api_key"
    /\ ~call.done
    /\ call' = [call EXCEPT !.done = TRUE,
                            !.returned = ValidateApiKey(call.api_key, call.auth_method)]
    /\ SessionUnchanged

\* validator.validate_url(url)
CallValidateUrl ==
    /\ call.fn = "validate_url"
    /\ ~call.done
    /\ call' = [call EXCEPT !.done = TRUE, !.returned = ValidateUrl(call.url)]
    /\ SessionUnchanged

\* validator.validate_request(request_spec)
CallValidateRequest ==
    /\ call.fn = "validate_request"
    /\ ~call.done
    /\ call' = [call EXCEPT !.done = TRUE,
                            !.returned = ValidateRequest(call.request_spec)]
    /\ SessionUnchanged

\* generator.prepare_api_request(context, api_info, api_key)
CallPrepareApiRequest ==
    /\ call.fn = "prepare_api_request"
    /\ ~call.done
    /\ call' = [call EXCEPT
                   !.done = TRUE,
                   !.returned = PrepareApiRequest(call.context, call.api_info,
                                                  call.api_key)]
    /\ SessionUnchanged

\* validator.validate_parameters(params)
CallValidateParameters ==
    /\ call.fn = "validate_parameters"
    /\ ~call.done
    /\ call' = [call EXCEPT !.done = TRUE,
                            !.returned = ValidateParameters(call.params)]
    /\ SessionUnchanged

\* validator.validate_body(body)
CallValidateBody ==
    /\ call.fn = "validate_body"
    /\ ~call.done
    /\ call' = [call EXCEPT !.done = TRUE, !.returned = ValidateBody(call.body)]
    /\ SessionUnchanged

\* generator.update_request_with_user_input(request_spec, user_responses);
\* argument is the caller's dict as the call leaves it
CallUpdateRequestWithUserInput ==
    /\ call.fn = "update_request_with_user_input"
    /\ ~call.done
    /\ call' = [call EXCEPT
           !.done = TRUE,
           !.returned = UpdateRequestWithUserInput(call.request_spec, call.user_responses),
           !.argument = UpdateRequestWithUserInputArgument(call.request_spec,
                                                           call.user_responses)]
    /\ SessionUnchanged

\* generator.identify_api(user_input), from the answer of the model on
CallIdentifyApi ==
    /\ call.fn = "identify_api"
    /\ ~call.done
    /\ call' = [call EXCEPT !.done = TRUE, !.returned = IdentifyApi(call.response)]
    /\ SessionUnchanged

\* generator.analyze_error(error_response, original_request), from the
\* answer of the model on
CallAnalyzeError ==
    /\ call.fn = "analyze_error"
    /\ ~call.done
    /\ call' = [call EXCEPT !.done = TRUE, !.returned = AnalyzeError(call.response)]
    /\ SessionUnchanged

\* credential_manager.get_credential(service, account)
CallGetCredential ==
    /\ call.fn = "get_credential"
    /\ ~call.done
    /\ call' = [call EXCEPT
           !.done = TRUE,
           !.returned = FileGetCredential(call.file, call.service, call.account)]
    /\ SessionUnchanged

\* credential_manager.store_credential(service, account, credential); the
\* file of the returned record is the file as the call leaves it
CallStoreCredential ==
    /\ call.fn = "store_credential"
    /\ ~call.done
    /\ call' = [call EXCEPT
           !.done = TRUE,
           !.returned = FileStoreCredential(call.file, call.service, call.account,
                                            call.credential)]
    /\ SessionUnchanged

NextCalls ==
    \/ CallValidateApiKey
    \/ CallValidateUrl
    \/ CallValidateRequest
    \/ CallPrepareApiRequest
    \/ CallValidateParameters
    \/ CallValidateBody
    \/ CallUpdateRequestWithUserInput
    \/ CallIdentifyApi
    \/ CallAnalyzeError
    \/ CallGetCredential
    \/ CallStoreCredential

SpecCalls == InitCalls /\ [][NextCalls]_vars

(***************************************************************************)
(* The claims                                                              *)
(***************************************************************************)
SaidYes(inp) == Lower(inp) \in {S_yes, S_y}

\* C1: when a failed request's diagnosis requires user input, the step that
\* takes the answer to the last prompt gets the patch, merges it and reaches
\* the retry offer for the same request.
C1_RepairReachesRetryOffer ==
    [][(pc = "repair_prompt" /\ Len(user_prompts) = 1 /\ ev'.step = "RepairAnswer")
          => (pc' = "retry_offer" /\ api_info' = api_info)]_vars

\* C2 as stated: a declined retry offer returns the session to the preview
\* menu of the same request spec.
C2_DeclineReturnsToPreview ==
    [][(pc = "retry_offer" /\ ev'.step = "RetryOffer" /\ ~SaidYes(ev'.input))
          => (pc' = "preview" /\ request_spec' = request_spec)]_vars

\* C2 as amended: a declined retry offer ends the retry loop and the preview
\* loop; the session is at the main goal prompt and the request is given up.
C2_DeclineReturnsToMainPrompt ==
    [][(pc = "retry_offer" /\ ev'.step = "RetryOffer" /\ ~SaidYes(ev'.input))
          => (pc' = "main_prompt" /\ ~ev'.executed /\ n_sent' = n_sent)]_vars

C2_Declined ==
    pc = "main_prompt" /\ ev.step = "RetryOffer" /\ ~SaidYes(ev.input) /\ n_sent > 0

\* C3: a failure whose diagnosis does not require user input has its
\* request_updates applied to the request spec in the same step, which ends at
\* the retry offer; from the retry offer execute_request is called again
\* exactly when the answer is yes or y.
C3_AutomaticRepairThenOffer ==
    [][/\ (/\ ev'.executed
           /\ result'.kind = "return"
           /\ result'.error
           /\ ~result'.error_analysis["requires_user_input"])
          => (/\ pc' = "retry_offer"
              /\ request_spec' =
                     DictUpdate(request_spec, result'.error_analysis["request_updates"]))
       /\ (pc = "retry_offer" /\ ev'.step = "RetryOffer")
          => (ev'.executed <=> SaidYes(ev'.input))]_vars

C3_RetriedAfterAutomaticRepair ==
    /\ ev.step = "RetryOffer"
    /\ ev.executed
    /\ ev.sent
    /\ last_sent /= EmptyDict
    /\ last_sent["url"] = UrlOther

\* C4: a request is sent to the target API a second or later time for the
\* same goal only from the retry offer that followed a failure, and only on
\* the answer yes or y.
C4_RetriesAreConfirmed ==
    [][(n_sent' > n_sent /\ n_sent > 0)
          => (/\ pc = "retry_offer"
              /\ result.kind = "return"
              /\ result.error
              /\ ev'.step = "RetryOffer"
              /\ SaidYes(ev'.input))]_vars

C4_SentTwice == n_sent = 2 /\ ev.step = "RetryOffer" /\ ev.sent

\* C5: a step that calls execute_request sends the request only when the spec
\* it was called with passes validate_request, and sends that spec; when the
\* spec fails validation nothing is sent and execute_request raises.
C5_SentOnlyIfValidated ==
    [][ev'.executed
          => (/\ ev'.sent => (/\ ValidateRequest(request_spec) = "ok"
                              /\ last_sent' = request_spec
                              /\ n_sent' = n_sent + 1)
              /\ ValidateRequest(request_spec) /= "ok"
                    => (/\ ~ev'.sent
                        /\ n_sent' = n_sent
                        /\ last_sent' = last_sent
                        /\ result'.kind = "raise"))]_vars

C5_RepairedSpecRejected ==
    ev.step = "RetryOffer" /\ ev.executed /\ ~ev.sent /\ result.kind = "raise"

\* C6 as stated: for every status received other than 200, execute_request
\* returns an error result.
C6_ErrorResultForEveryOtherStatus ==
    (ev.executed /\ ev.sent /\ result.status_code \notin {0, 200})
        => (result.kind = "return" /\ result.error)

\* C6 as amended: execute_request returns a success result only for status
\* 200; for any other status it returns an error result with the status, the
\* diagnosis of analyze_error and the request sent whenever analyze_error
\* returns one, and raises what analyze_error raises otherwise.
C6_SuccessOnlyFor200 ==
    /\ result.kind = "return"
          => (/\ result.error <=> result.status_code /= 200
              /\ result.error
                    => (/\ result.error_analysis \in ErrorAnalyses
                        /\ result.original_request = last_sent))
    /\ (result.kind = "raise" /\ result.status_code /= 0)
          => (result.status_code /= 200 /\ result.cause = "analyze_error")

C6_ErrorResultFor201 ==
    result.kind = "return" /\ result.error /\ result.status_code = 201

\* C7: a step in which a validator call raised ValidationError ends at a
\* prompt of the session, never with the session terminated.
C7_ValidationErrorsAreCaught ==
    ev.verr /= "" => pc \in {"main_prompt", "enter_key"}

C7_PrepareRejected ==
    ev.verr = "prepare_api_request" /\ pc = "main_prompt"

\* C8: a step in which a model call failed (status other than 200, or content
\* that is no JSON) ends at the main prompt with the goal given up.
C8_ModelFailureBackToMainPrompt ==
    ev.merr /= ""
        => (pc = "main_prompt" /\ api_info = EmptyDict /\ request_spec = EmptyDict)

C8_DiagnosisFailed ==
    ev.merr = "analyze_error" /\ pc = "main_prompt"

StageOrder ==
    <<"identified", "confirmed", "credentials", "questions", "answered",
      "prepared", "execute_chosen">>

\* C9: the stages of a goal are completed in order, and a request is sent
\* only when all of them are.
C9_StagesInOrder ==
    /\ \A i \in 2..Len(StageOrder) :
           StageOrder[i] \in stages => StageOrder[i - 1] \in stages
    /\ n_sent > 0 => stages = {StageOrder[i] : i \in 1..Len(StageOrder)}
    /\ pc \in {"preview", "modify", "modify_url", "modify_params", "modify_headers",
               "modify_method"} => "prepared" \in stages

C9_SentAfterAllStages == n_sent > 0 /\ ev.sent /\ ev.step = "Preview"

\* C10: set_default_values applied to what it returned returns the same spec.
C10_SetDefaultValuesIdempotent ==
    call.fn = "set_default_values"
        => \A i \in 2..Len(call.returned) : call.returned[i] = call.returned[1]

C10_AppliedTwice ==
    /\ call.fn = "set_default_values"
    /\ Len(call.returned) >= 2
    /\ "headers" \notin DOMAIN call.given
    /\ call.returned[1] /= call.given

\* C11: set_default_values keeps every value the spec holds: Content-Type and
\* Accept of headers, params, method and timeout are those of the spec given
\* when it has them and application/json, application/json, the empty dict,
\* GET and 30 otherwise; every other field and every other header is the one
\* of the spec given.
C11_NeverOverwrites ==
    (call.fn = "set_default_values" /\ call.returned /= <<>>)
        => LET g  == call.given
               r  == call.returned[1]
               gh == IF "headers" \in DOMAIN g THEN g["headers"] ELSE EmptyDict
           IN  /\ DOMAIN r = DOMAIN g \cup {"headers", "params", "method", "timeout"}
               /\ DOMAIN r["headers"] = DOMAIN gh \cup {S_Content_Type, S_Accept}
               /\ \A k \in DOMAIN gh : r["headers"][k] = gh[k]
               /\ \A k \in {S_Content_Type, S_Accept} \ DOMAIN gh :
                      r["headers"][k] = PyStr(S_application_json)
               /\ r["params"] = (IF "params" \in DOMAIN g THEN g["params"] ELSE EmptyDict)
               /\ r["method"] = (IF "method" \in DOMAIN g THEN g["method"] ELSE S_GET)
               /\ r["timeout"] = (IF "timeout" \in DOMAIN g THEN g["timeout"] ELSE 30)
               /\ \A k \in DOMAIN g \ {"headers", "params", "method", "timeout"} :
                      r[k] = g[k]

C11_MethodKeptAcceptDefaulted ==
    /\ call.fn = "set_default_values"
    /\ call.returned /= <<>>
    /\ "method" \in DOMAIN call.given
    /\ "headers" \in DOMAIN call.given
    /\ S_Accept \notin DOMAIN call.given["headers"]
    /\ call.returned[1]["method"] = S_POST
    /\ call.returned[1]["headers"][S_Accept] = PyStr(S_application_json)

\* C12: after set_default_values has returned, the spec it was given, its
\* headers and params included, is as it was before the call.
C12_ArgumentUnchanged ==
    call.fn = "set_default_values" => call.request_spec = call.given

\* C13 as stated: the spec returned by set_default_values has headers, params
\* and method, and a timeout that is a positive number, whatever the spec
\* given held.
C13_TimeoutAlwaysPositive ==
    (call.fn = "set_default_values" /\ call.returned /= <<>>)
        => LET r == call.returned[1]
           IN  /\ {"headers", "params", "method", "timeout"} \subseteq DOMAIN r
               /\ r["timeout"] > 0

\* C13 as amended: the spec returned has headers, params, method and timeout;
\* the timeout is the one of the spec given when it has one and 30 otherwise,
\* hence positive whenever the spec given has no timeout or a positive one.
C13_TimeoutPositiveUnlessGiven ==
    (call.fn = "set_default_values" /\ call.returned /= <<>>)
        => LET g == call.given
               r == call.returned[1]
           IN  /\ {"headers", "params", "method", "timeout"} \subseteq DOMAIN r
               /\ "timeout" \in DOMAIN g => r["timeout"] = g["timeout"]
               /\ "timeout" \notin DOMAIN g => r["timeout"] = 30
               /\ ("timeout" \notin DOMAIN g \/ g["timeout"] > 0) => r["timeout"] > 0

C13_TimeoutDefaulted ==
    /\ call.fn = "set_default_values"
    /\ call.returned /= <<>>
    /\ DOMAIN call.given = {"url"}
    /\ call.returned[1]["timeout"] = 30
    /\ call.returned[1]["params"] = EmptyDict

\* C14: validate_api_key(s, "header") returns exactly for the keys s of at
\* least 20 characters that are all letters, digits, underscores or hyphens,
\* and raises ValidationError for every other key.
C14_AcceptsExactlyLongWellFormedKeys ==
    (call.fn = "validate_api_key" /\ call.done /\ call.auth_method = S_header)
        => (call.returned = "ok"
                <=> (Len(call.api_key) >= 20 /\ AllIn(call.api_key, ApiKeyChars)))

\* the descriptor of the goal names an authentication method without "no" in it
KeyNeeded(info) ==
    /\ "authentication_method" \in DOMAIN info
    /\ ~Contains(Lower(info["authentication_method"]), S_no)

\* the prompts of main() that follow the return of handle_credentials
AfterCredentials == {"answer1", "answer2", "answer3", "preview", "modify", "modify_url",
                     "modify_params", "modify_headers", "modify_method",
                     "repair_prompt", "retry_offer"}

\* C15: when the authentication method has no "no" in it, the key that
\* handle_credentials holds at its save prompt and returns passes
\* validate_api_key; a stored key that fails it is not returned on a yes, the
\* user is asked for a key instead, and a key entered that fails it is asked
\* for again.
C15_ReturnedKeyIsValid ==
    [][/\ (KeyNeeded(api_info') /\ pc' \in AfterCredentials \cup {"save_key"})
              => ValidateApiKey(api_key', Lower(api_info'["authentication_method"])) = "ok"
       /\ (/\ pc = "use_existing"
           /\ ev'.step = "UseExisting"
           /\ SaidYes(ev'.input)
           /\ ValidateApiKey(GetCredential(credentials, api_info["name"], "api_key").val,
                             Lower(api_info["authentication_method"])) /= "ok")
              => (pc' = "enter_key" /\ api_key' = <<>>)
       /\ (/\ pc = "enter_key"
           /\ ev'.step = "EnterKey"
           /\ ValidateApiKey(Strip(ev'.input),
                             Lower(api_info["authentication_method"])) /= "ok")
              => (pc' = "enter_key" /\ api_key' = <<>>)]_vars

C15_StoredKeyRefused ==
    /\ pc = "enter_key"
    /\ ev.step = "UseExisting"
    /\ SaidYes(ev.input)
    /\ ev.verr = "handle_credentials"
    /\ GetCredential(credentials, api_info["name"], "api_key") = PyStr(KeyShort)

\* C16: when the authentication method has "no" in it, handle_credentials
\* returns the empty string in the step that confirmed the API, without
\* reading or writing the credentials file and without a prompt; for any
\* other authentication method the key it returns is not empty.
C16_NoKeyExactlyWhenNoAuthentication ==
    [][/\ (/\ pc = "confirm"
           /\ ev'.step = "Confirm"
           /\ SaidYes(ev'.input)
           /\ "authentication_method" \in DOMAIN api_info
           /\ ~KeyNeeded(api_info))
              => (/\ credentials' = credentials
                  /\ ~ev'.store_read
                  /\ pc' \in {"answer1", "main_prompt"}
                  /\ pc' = "answer1" => api_key' = <<>>)
       /\ (KeyNeeded(api_info') /\ pc' \in AfterCredentials) => api_key' /= <<>>]_vars

C16_ReturnedEmpty ==
    /\ ev.step = "Confirm"
    /\ pc = "answer1"
    /\ api_key = <<>>
    /\ api_info["authentication_method"] = AuthNone
    /\ credentials /= EmptyDict

\* C17: the spec prepare_api_request returns holds the key in one place: in
\* the header Authorization as "Bearer <key>", with no apikey parameter, when
\* the authentication method contains "header" in any case, and in the
\* parameter apikey, with no Authorization header, otherwise.
C17_KeyInOnePlace ==
    (call.fn = "prepare_api_request" /\ call.done /\ call.returned.raised = "")
        => LET auth == Lower(DictGet(call.api_info, "authentication_method", <<>>))
               r    == call.returned.value
           IN  IF Contains(auth, S_header)
               THEN /\ S_Authorization \in DOMAIN r["headers"]
                    /\ r["headers"][S_Authorization] = PyStr(S_Bearer \o call.api_key)
                    /\ S_apikey \notin DOMAIN r["params"]
               ELSE /\ S_apikey \in DOMAIN r["params"]
                    /\ r["params"][S_apikey] = PyStr(call.api_key)
                    /\ S_Authorization \notin DOMAIN r["headers"]

C17_KeyInHeader ==
    /\ call.fn = "prepare_api_request"
    /\ call.done
    /\ call.returned.raised = ""
    /\ DictGet(call.api_info, "authentication_method", <<>>) = AuthHeader
    /\ call.returned.value["headers"][S_Authorization] = PyStr(S_Bearer \o KeyGood)

\* the base URL of prepare_api_request: the one of the descriptor, or the
\* scheme and network location of its documentation URL
BaseUrlOf(info) ==
    IF DictGet(info, "base_url", <<>>) /= <<>> THEN info["base_url"]
    ELSE IF "documentation" \in DOMAIN info
    THEN Urlparse(info["documentation"]).scheme \o <<":", "/", "/">>
             \o Urlparse(info["documentation"]).netloc
    ELSE <<>>

\* C18: a spec prepare_api_request returns has the defaults applied and
\* passes validate_request; when the base URL it derives is no http(s) URL
\* with a network location it returns no spec and raises ValidationError.
C18_PreparedSpecIsValidOrRaises ==
    (call.fn = "prepare_api_request" /\ call.done)
        => LET r == call.returned
           IN  /\ r.raised = ""
                     => (/\ ValidateRequest(r.value) = "ok"
                         /\ {"headers", "params", "method", "timeout"}
                                \subseteq DOMAIN r.value
                         /\ r.value["url"] = BaseUrlOf(call.api_info))
               /\ r.raised /= "" => "value" \notin DOMAIN r
               /\ ValidateUrl(BaseUrlOf(call.api_info)) /= "ok"
                     => r.raised \in {"ValidationError", "ValueError"}
               /\ r.raised = "ValueError"
                     => Urlparse(call.api_info["documentation"]).raised = "ValueError"

C18_NoUrlRaises ==
    /\ call.fn = "prepare_api_request"
    /\ call.done
    /\ call.returned.raised = "ValidationError"
    /\ DictGet(call.api_info, "base_url", <<>>) = <<>>
    /\ "documentation" \notin DOMAIN call.api_info

\* C19: validate_request raises the body-required error for every spec whose
\* method is POST, PUT or PATCH in any case and whose body is absent or None,
\* the url, headers and params being valid.
C19_BodyRequiredWithoutBody ==
    (/\ call.fn = "validate_request"
     /\ call.done
     /\ {"url", "method"} \subseteq DOMAIN call.request_spec
     /\ Upper(call.request_spec["method"]) \in {S_POST, S_PUT, S_PATCH}
     /\ ValidateUrl(call.request_spec["url"]) = "ok"
     /\ "headers" \in DOMAIN call.request_spec
            => ValidateHeaders(call.request_spec["headers"]) = "ok"
     /\ "params" \in DOMAIN call.request_spec
            => ValidateParameters(call.request_spec["params"]) = "ok"
     /\ \/ "body" \notin DOMAIN call.request_spec
        \/ call.request_spec["body"] = PyNone)
        => call.returned = "BodyRequired"

\* the host of a network location: what follows the user information and
\* precedes the port
Hostname(netloc) ==
    LET ats   == {i \in 1..Len(netloc) : netloc[i] = "@"}
        from  == IF ats = {} THEN 1 ELSE (CHOOSE i \in ats : \A j \in ats : j <= i) + 1
        host  == SubSeq(netloc, from, Len(netloc))
        colon == Find(host, ":")
        close == Find(host, "]")
    IN  IF host /= <<>> /\ host[1] = "[" THEN SubSeq(host, 2, close - 1)
        ELSE IF colon = 0 THEN host
        ELSE SubSeq(host, 1, colon - 1)

\* C20: validate_url returns exactly for the URLs that have a scheme and a
\* host and whose scheme is http or https, and raises ValidationError for
\* every other URL.
C20_AcceptsExactlyHttpUrlsWithHost ==
    (call.fn = "validate_url" /\ call.done)
        => /\ call.returned \in {"ok", "InvalidUrl"}
           /\ call.returned = "ok"
                 <=> (/\ Urlparse(call.url).raised = ""
                      /\ Urlparse(call.url).scheme \in {S_http, S_https}
                      /\ Hostname(Urlparse(call.url).netloc) /= <<>>)

\* the categories whose keyword the name of a parameter contains
CategoriesOf(key) ==
    {c \in {"email", "date", "api_key", "url"} :
        Contains(Lower(key),
                 CASE c = "email" -> S_email [] c = "date" -> S_date
                   [] c = "api_key" -> S_api_key [] c = "url" -> S_url)}

\* C21: for a mapping none of whose keys contains email, date, api_key or url
\* in any case, validate_parameters raises exactly when some value is None,
\* and then the null-parameter error; it returns when all keys and values are
\* non-empty strings.
C21_FailsExactlyOnNull ==
    (/\ call.fn = "validate_parameters"
     /\ call.done
     /\ \A k \in DOMAIN call.params : CategoriesOf(k) = {})
        => /\ call.returned \in {"ok", "NullParameter"}
           /\ call.returned = "NullParameter"
                 <=> \E k \in DOMAIN call.params : call.params[k] = PyNone

C21_PlainStringsAccepted ==
    /\ call.fn = "validate_parameters"
    /\ call.done
    /\ call.returned = "ok"
    /\ DOMAIN call.params = {S_q, <<"Q","u","e","r","y">>}
    /\ \A k \in DOMAIN call.params : call.params[k] = PyStr(<<"x">>)

\* C22: validate_parameters returns only when, for every parameter and every
\* category whose keyword its name contains, the value is a string matching
\* the pattern of that category.
C22_EveryCategoryChecked ==
    (call.fn = "validate_parameters" /\ call.done /\ call.returned = "ok")
        => \A k \in DOMAIN call.params : \A c \in CategoriesOf(k) :
               ValidatePattern(call.params[k], c) = "ok"

\* C23: validate_body succeeds for every dict or list body that json.dumps
\* writes and for every str body that json.loads reads, fails as
\* InvalidJsonString for a str that json.loads refuses, and fails as
\* UnsupportedBodyType for every body of another type (numbers, booleans,
\* None).
C23_BodyAcceptedExactlyWhenJson ==
    (call.fn = "validate_body" /\ call.done) =>
        /\ call.body \in DumpableBodies => call.returned = "ok"
        /\ (call.body.type = "str" /\ call.body.val \in JsonTexts) => call.returned = "ok"
        /\ (call.body.type = "str" /\ call.body.val \in NotJsonTexts)
               => call.returned = "InvalidJsonString"
        /\ call.body.type \notin {"dict", "list", "str"}
               => call.returned = "UnsupportedBodyType"

\* validate_body has refused the number 42 as a body of unsupported type.
C23_NumberRefused ==
    /\ call.fn = "validate_body"
    /\ call.done
    /\ call.body = PyInt(42)
    /\ call.returned = "UnsupportedBodyType"

\* the params of the spec passed to update_request_with_user_input, the
\* parameter_updates passed with it, and the params of the dict returned
OldParams == DictGet(call.request_spec, "params", <<>>)
Updates == DictGet(call.user_responses, "parameter_updates", <<>>)
NewParams == call.returned["params"]

\* the value the ordered mapping d holds under its key k
ItemGet(d, k) == d[CHOOSE i \in 1..Len(d) : d[i][1] = k][2]

\* what C24 says of the entry (k, v) of parameter_updates
StoredUnderMatchingKey(k, v) ==
    IF \E e \in ItemKeys(OldParams) : Lower(e) = Lower(k)
    THEN /\ \E e \in ItemKeys(OldParams) :
                Lower(e) = Lower(k) /\ ItemGet(NewParams, e) = v
         /\ k \notin ItemKeys(OldParams) => k \notin ItemKeys(NewParams)
    ELSE k \in ItemKeys(NewParams) /\ ItemGet(NewParams, k) = v

\* C24 as stated: for every entry (k, v) of parameter_updates, if the params
\* of the spec hold a key equal to k ignoring case, the result holds v under
\* that key and no new key k; otherwise the result holds v under the new key
\* k.  No key of the params is removed.
C24_EveryEntryStoredUnderMatchingKey ==
    (call.fn = "update_request_with_user_input" /\ call.done) =>
        /\ ItemKeys(OldParams) \subseteq ItemKeys(NewParams)
        /\ \A i \in 1..Len(Updates) :
               StoredUnderMatchingKey(Updates[i][1], Updates[i][2])

\* C24, amended: the same for every entry of parameter_updates whose key is
\* equal ignoring case to the key of no other entry.  No key of the params
\* is removed.
C24_DistinctEntriesStoredUnderMatchingKey ==
    (call.fn = "update_request_with_user_input" /\ call.done) =>
        /\ ItemKeys(OldParams) \subseteq ItemKeys(NewParams)
        /\ \A i \in 1..Len(Updates) :
               (\A j \in 1..Len(Updates) :
                    j /= i => Lower(Updates[j][1]) /= Lower(Updates[i][1]))
                   => StoredUnderMatchingKey(Updates[i][1], Updates[i][2])

\* The update of query has been stored under the key Query of the params.
C24_QueryStoredUnderExistingKey ==
    /\ call.fn = "update_request_with_user_input"
    /\ call.done
    /\ OldParams = <<<<P_Query, PyStr(<<"x">>)>>>>
    /\ Updates = <<<<P_query, PyStr(<<"y">>)>>>>
    /\ NewParams = <<<<P_Query, PyStr(<<"y">>)>>>>

\* C25: after update_request_with_user_input has returned, the spec that
\* was passed in, its params mapping included, is as it was before the call.
C25_PassedSpecUnchanged ==
    (call.fn = "update_request_with_user_input" /\ call.done) =>
        call.argument = call.request_spec

\* the answer of the model is one JSON document between a json fence and a
\* closing fence
FencedJson(response) ==
    /\ response.status_code = 200
    /\ Len(response.content) = 3
    /\ response.content[1] = FenceJson
    /\ response.content[2].tok = "json"
    /\ response.content[3] = Fence

\* C26: identify_api and analyze_error both strip the Markdown fences before
\* they parse, so each of them returns the document of an answer that is a
\* JSON object wrapped in a json fence.
C26_FencedJsonAcceptedAtEverySite ==
    (call.fn \in {"identify_api", "analyze_error"} /\ call.done
         /\ FencedJson(call.response))
        => /\ call.returned.raised = ""
           /\ call.returned.value = call.response.content[2].value

\* C27: whenever the model call of get_followup_questions succeeds, the
\* session holds exactly three questions, and no question is missing when
\* the session asks the second and the third.
C27_AlwaysThreeQuestions ==
    /\ pc \in {"answer1", "answer2", "answer3"} => Len(questions) = 3
    /\ ev.step \in {"Answer1", "Answer2"} => ev.exc /= "IndexError"

\* the file is missing, is no JSON, or is JSON that is no mapping
MissingOrCorrupt(file) ==
    \/ ~file.exists
    \/ JsonLoads(file.content).raised /= ""
    \/ JsonLoads(file.content).value.type /= "dict"

\* C28: on a credentials file that is missing, is not valid JSON, or is
\* valid JSON that is not a mapping, get_credential returns None and
\* store_credential writes a store that holds just the new entry, and
\* neither raises.
C28_MissingOrCorruptFileIsEmpty ==
    (call.fn \in {"get_credential", "store_credential"} /\ call.done
         /\ MissingOrCorrupt(call.file))
        => /\ call.returned.raised = ""
           /\ call.fn = "get_credential" => call.returned.value = PyNone
           /\ call.fn = "store_credential" =>
                  call.returned.file =
                      FileStoreCredential([exists |-> TRUE,
                                           content |-> <<Json(PyDict(EmptyDict))>>],
                                          call.service, call.account,
                                          call.credential).file

\* the entries of the mapping spec[field] that the patch does not name are
\* in after[field] as they were
FieldKept(spec, patch, after, field) ==
    \A k \in DOMAIN DictGet(spec, field, EmptyDict) :
        k \notin DOMAIN DictGet(patch, field, EmptyDict)
            => /\ k \in DOMAIN DictGet(after, field, EmptyDict)
               /\ after[field][k] = spec[field][k]

\* C29: when the request_updates of a diagnosis that requires no user input
\* are applied, every query parameter and every header of the request spec
\* that the patch does not name, the apikey parameter and the Authorization
\* header among them, is still in the spec afterwards.
C29_AutomaticRepairKeepsUnnamedFields ==
    [][(/\ ev'.executed
        /\ result'.kind = "return"
        /\ result'.error
        /\ ~result'.error_analysis["requires_user_input"])
       => (/\ FieldKept(request_spec, result'.error_analysis["request_updates"],
                        request_spec', "params")
           /\ FieldKept(request_spec, result'.error_analysis["request_updates"],
                        request_spec', "headers"))]_vars

\* C30: when handle_credentials has returned the empty string, the request
\* spec that prepare_api_request builds has neither an Authorization header
\* nor an apikey query parameter.
C30_NoCredentialFieldWithoutKey ==
    (ev.step = "Answer3" /\ pc = "preview" /\ api_key = <<>>)
        => /\ S_Authorization \notin DOMAIN request_spec["headers"]
           /\ S_apikey \notin DOMAIN request_spec["params"]

\* the text key is in a value of the mapping d
InValues(d, key) ==
    \E k \in DOMAIN d : d[k].type = "str" /\ Contains(d[k].val, key)

\* the prompt of analyze_error holds the text key
PromptContains(prompt, key) ==
    \/ Contains(prompt.url, key)
    \/ InValues(prompt.headers, key)
    \/ InValues(prompt.params, key)

\* C31: no prompt sent to the model contains the user's API key: when a
\* sent request has failed and analyze_error has asked the model, the prompt
\* it built does not hold the key of the session.
C31_NoPromptContainsKey ==
    (/\ ev.executed
     /\ ev.sent
     /\ result.kind \in {"raise", "return"}
     /\ result.status_code /= 0
     /\ IsFailureStatus(result.status_code)
     /\ api_key /= <<>>)
        => ~PromptContains(AnalyzeErrorPrompt(result.status_code, last_sent), api_key)

\* C32: the body of the request spec is None from preparation on, every
\* request sent to the target API has the method GET or DELETE ignoring
\* case, and an execution of a spec whose method is POST, PUT or PATCH is
\* refused by validation and sends nothing.
C32_OnlyBodilessMethodsSent ==
    [][/\ "body" \in DOMAIN request_spec' => request_spec'["body"] = PyNone
       /\ n_sent' > n_sent => Upper(last_sent'["method"]) \in {S_GET, S_DELETE}
       /\ (ev'.executed /\ Upper(request_spec["method"]) \in {S_POST, S_PUT, S_PATCH})
              => (/\ ~ev'.sent
                  /\ n_sent' = n_sent
                  /\ ev'.verr = "execute_request")]_vars

\* A request has been sent and has failed, and the repair has changed the
\* method of the spec to POST; its body is None and the retry is offered.
C32_RepairedToPost ==
    /\ pc = "retry_offer"
    /\ n_sent > 0
    /\ "method" \in DOMAIN request_spec
    /\ Upper(request_spec["method"]) = S_POST
    /\ request_spec["body"] = PyNone

\* every entry of the store after, but the one under (service, account), is
\* in the store before with the same value
OnlyEntryWritten(before, after, service, account) ==
    \A s \in DOMAIN after : \A a \in DOMAIN after[s] :
        (s /= service \/ a /= account)
            => (s \in DOMAIN before /\ a \in DOMAIN before[s]
                    /\ before[s][a] = after[s][a])

\* C33: the credentials store changes only at the save offer of
\* handle_credentials, on the answer yes or y; what is written is the key
\* just entered, which has passed validate_api_key, under (name of the API,
\* api_key) and nowhere else.  On that answer the key is in the store
\* afterwards; a step that reuses a stored key, declines the offer or finds
\* that no key is needed leaves the store as it was.
C33_StoreWrittenOnlyOnAcceptedSave ==
    [][/\ credentials' /= credentials
              => (/\ pc = "save_key"
                  /\ ev'.step = "SaveKey"
                  /\ SaidYes(ev'.input)
                  /\ ev.step = "EnterKey"
                  /\ api_key = Strip(ev.input)
                  /\ ValidateApiKey(api_key, Lower(api_info["authentication_method"])) = "ok"
                  /\ OnlyEntryWritten(credentials, credentials', api_info["name"], "api_key"))
       /\ (pc = "save_key" /\ ev'.step = "SaveKey" /\ SaidYes(ev'.input))
              => GetCredential(credentials', api_info["name"], "api_key") = PyStr(api_key)
       /\ (\/ ev'.step \in {"Confirm", "UseExisting", "EnterKey"}
           \/ ev'.step = "SaveKey" /\ ~SaidYes(ev'.input))
              => credentials' = credentials]_vars

\* A key has been saved on a yes next to the entry of another API, which is
\* still in the store.
C33_KeySavedNextToOtherEntry ==
    /\ ev.step = "SaveKey"
    /\ SaidYes(ev.input)
    /\ GetCredential(credentials, ApiName, "api_key") = PyStr(KeyGood)
    /\ GetCredential(credentials, OtherApiName, "api_key") = PyStr(KeyGood)

====
